---- MODULE Spec2Model ----
(***************************************************************************)
(* A state-machine model of ct-daemon-go: the in-process message bus, the  *)
(* venue adapters (socket, reader, writer, reconnect), the DataMonitor     *)
(* supervisor and the PriceMonitor sampler.                                *)
(*                                                                         *)
(* Each subsystem has its own specification (SpecBus, SpecAdapter,         *)
(* SpecSup, SpecSampler) over the shared variables; the variables of the   *)
(* other subsystems stay as Init left them.                                *)
(***************************************************************************)
EXTENDS Integers, Sequences, FiniteSets, TLC

(***************************************************************************)
(* Bounds of the model.                                                    *)
(***************************************************************************)
MaxMsgs == 2
MaxChans == 3
MaxCap == 2
\* Reconnect attempts that the attempt counter tells apart (it saturates).
MaxAttempts == 2
\* Reconciliation ticks and worker creations of the supervisor.
MaxTicks == 3
MaxStarts == 3
\* Sampler ticks, and the deepest order book side.
MaxTime == 2
MaxLevels == 6

Topics == {"binance", "kucoin"}
\* The publishers are the readers of two adapters; each adapter publishes
\* under its own venue name.
Publishers == {1, 2}
PubTopic(p) == IF p = 1 THEN "binance" ELSE "kucoin"
Chans == 1..MaxChans
Msgs == 1..MaxMsgs
NoChan == 0

VARIABLES
    \* ---- bus.MessageBus ----
    subArr,      \* topic -> backing array of mb.subscribers[topic] (length = cap)
    subLen,      \* topic -> len(mb.subscribers[topic])
    nextCh,      \* number of channels made so far
    chCap,       \* channel -> capacity
    chBuf,       \* channel -> buffered messages, oldest first
    chClosed,    \* channel -> closed by Unsubscribe
    pub,         \* publisher -> its position inside Publish
    busPanic,    \* a send on a closed channel has panicked the process
    \* ---- bus history (observation only) ----
    nMsgs,       \* messages published so far; a message is its begin order
    msgDone,     \* messages whose Publish has returned
    msgPreds,    \* message -> messages whose Publish returned before it began
    received,    \* channel -> messages dequeued, in order
    \* ---- one DataWorker and its exchange.Adapter ----
    venue,          \* which adapter NewAdapter built
    wk,             \* the worker: "none", "live" (in dm.workers), "stopped"
    marketPairs,    \* DataWorker.marketPairs
    active,         \* adapter.active
    conn,           \* ws.Conn: "nil", "open", or "broken" (the link has failed)
    connected,      \* ws.connected
    wire,           \* pairs the venue streams on the current connection
    lastPairs,      \* adapter.lastPairs
    lastMarketType, \* adapter.lastMarketType
    lastDepth,      \* adapter.lastDepth
    starter,        \* position of the goroutine running DataWorker.Start
    reader,         \* position of readLoopWithReconnect
    rsArgs,         \* the reader's evaluated arguments of its resubscribe call
    slept,          \* seconds slept before the current reconnect attempt
    attempts,       \* failed reconnect attempts since the read error
    writer,         \* position of WriteLoop
    \* ---- adapter history (observation only) ----
    stopPhase,      \* where Start was when Stop was called ("" = not stopped)
    afterStop,      \* what the tasks did in iterations begun after Stop
    ticked,         \* a tick has updated the existing worker
    lastRequest,    \* the most recent subscribe request made to the adapter
    resendOK,       \* every replay so far repeated lastRequest
    ws,             \* adapter.ws: "nil" or "client"
    pairIDMap,      \* adapter.pairIDMap: symbol -> pair id
    decorated,      \* every message published so far carried its pair id
    \* ---- worker.DataMonitor ----
    workers,        \* key -> id of its worker's start goroutine, or NoWorker
    startGo,        \* start goroutine -> position and the counter value it read
    totalStarted,
    totalStopped,
    totalErrors,
    \* ---- supervisor history (observation only) ----
    nTicks,         \* ticks so far
    lastD,          \* desired keys of the last tick that read the catalog
    lastF,          \* keys whose creation failed in that tick
    retryDue,       \* desired keys whose creation or start had failed before it
    attempted,      \* keys for which that tick attempted a creation
    lastRead,       \* outcome of the last tick's catalog read
    dmStop,         \* position of DataMonitor.Stop
    dmLoop,         \* the ticker goroutine of DataMonitor.Start: "run", "exited"
    \* ---- PriceMonitor ----
    dbPairs,        \* pair ids the monitoring query returns
    monitoringPairs,\* pm.monitoringPairs, loaded by Start
    orderBooks,     \* pm.orderBooks: pair id -> last order book
    now,            \* the clock
    table,          \* committed rows, in insertion order
    \* ---- sampler history (observation only) ----
    lastTick,       \* the last tick: its time, pairs, cache and outcome
    lastSeen,       \* catalog pair id -> book of its last consumed message
    \* ---- PriceMonitor, its goroutines ----
    pmStart,        \* position of PriceMonitor.Start
    pmSpawned,      \* go statements Start has executed
    pmCancelled,    \* pm.ctx is done
    subscriber,     \* pm.subscriber: "nil", "open" or "closed"
    subscriberLen,  \* messages buffered in pm.subscriber
    wg,             \* pm.wg, its counter
    forwarder,      \* forwarder -> position of forwardMessages
    consumer,       \* position of processMessages
    monitorLoop,    \* position of monitorLoop
    pmStop,         \* position of PriceMonitor.Stop
    pmPanic,        \* a panic of a sampler goroutine has ended the process
    pmQueues,       \* bus queues registered by the sampler
    \* ---- sampler life cycle history (observation only) ----
    pmStopAt,       \* where Start was when Stop was called
    \* ---- app.Manager ----
    workStarted,    \* m.workStarted
    stopChan,       \* m.stopChan: "open" or "closed"
    tradeMonitor,   \* m.tradeMonitor: the pipeline of the component, 0 = nil
    dataMonitor,    \* m.dataMonitor
    priceMonitor,   \* m.priceMonitor
    tradeMonitors,  \* pipeline -> "none", "running" or "stopped"
    dataMonitors,
    priceMonitors,
    nPipelines,     \* pipelines built so far
    startReq,       \* start_work request -> position of StartWork
    stopReq,        \* stop_work request -> position of StopWork
    shutdownReq,    \* position of the goroutine of the shutdown request
    mgPanic,        \* a send on the closed stop channel has panicked the process
    \* ---- manager history (observation only) ----
    stopCalled,     \* StopWork has been called
    \* ---- the venue parsers ----
    parsed,         \* the order book of the frame parsed last
    split,          \* the concatenated symbol split last, its base and quote
    rd              \* a reader and what it did with the frames it has read

busVars == <<subArr, subLen, nextCh, chCap, chBuf, chClosed, pub,
             busPanic, nMsgs, msgDone, msgPreds, received>>

adVars == <<venue, wk, marketPairs, active, conn, connected, wire, lastPairs,
            lastMarketType, lastDepth, starter, reader, rsArgs, slept,
            attempts, writer, stopPhase, afterStop, ticked, lastRequest,
            resendOK, ws, pairIDMap, decorated>>

supVars == <<workers, startGo, totalStarted, totalStopped, totalErrors,
             nTicks, lastD, lastF, retryDue, attempted, lastRead, dmStop,
             dmLoop>>

smVars == <<dbPairs, monitoringPairs, orderBooks, now, table, lastTick,
           lastSeen>>

pmVars == <<pmStart, pmSpawned, pmCancelled, subscriber, subscriberLen, wg,
            forwarder, consumer, monitorLoop, pmStop, pmPanic, pmQueues,
            pmStopAt>>

mgVars == <<workStarted, stopChan, tradeMonitor, dataMonitor, priceMonitor,
            tradeMonitors, dataMonitors, priceMonitors, nPipelines, startReq,
            stopReq, shutdownReq, mgPanic, stopCalled>>

psVars == <<parsed, split, rd>>

vars == <<busVars, adVars, supVars, smVars, pmVars, mgVars, psVars>>

(***************************************************************************)
(* Go slices and channels.                                                 *)
(***************************************************************************)
\* Capacity chosen by append when the backing array is full.
GrowCap(c) == IF c = 0 THEN 1 ELSE 2 * c

Pad(s, n) == s \o [i \in 1..(n - Len(s)) |-> NoChan]

\* append(subscribers[:i], subscribers[i+1:]...) on an array holding len
\* elements: the tail is copied down in place, the last slot keeps its value.
\* A removal that leaves the array as it is, so that the shorter slice loses
\* its last element.
RemoveLast(arr, len, i) == arr

RemoveAt(arr, len, i) ==
    [j \in 1..Len(arr) |-> IF j >= i /\ j < len THEN arr[j + 1] ELSE arr[j]]

\* First index of ch in the slice, 0 when it is not registered.
IndexOf(arr, len, ch) ==
    IF \E j \in 1..len : arr[j] = ch
    THEN CHOOSE j \in 1..len : arr[j] = ch /\ \A k \in 1..(j - 1) : arr[k] # ch
    ELSE 0

Registered(t) == {subArr[t][j] : j \in 1..subLen[t]}

\* What a full queue does to the sender: a blocking send would wait.
SendOutcomeBlocking(ch) ==
    IF chClosed[ch] THEN "panic"
    ELSE IF Len(chBuf[ch]) < chCap[ch] THEN "sent"
    ELSE "blocked"

\* select { case ch <- msg: ... default: ... }
SendOutcome(ch) ==
    IF chClosed[ch] THEN "panic"
    ELSE IF Len(chBuf[ch]) < chCap[ch] THEN "sent"
    ELSE "dropped"

\* A channel that hands out the newest message first.
ChanSendLIFO(buf, m) == <<m>> \o buf

\* ch <- msg on a buffered channel: the message joins the tail.
ChanSend(buf, m) == Append(buf, m)

\* A publisher's frame of Publish. covered, delivered and dropped observe the
\* call: the queues registered during all of it, those the message was
\* enqueued to, those that were full at their send.
IdlePub == [pc |-> "idle", topic |-> "binance", msg |-> 0, shared |-> TRUE,
            arr |-> <<>>, len |-> 0, i |-> 0,
            covered |-> {}, delivered |-> {}, dropped |-> {}]

BusInit ==
    /\ subArr = [t \in Topics |-> <<>>]
    /\ subLen = [t \in Topics |-> 0]
    /\ nextCh = 0
    /\ chCap = [c \in Chans |-> 0]
    /\ chBuf = [c \in Chans |-> <<>>]
    /\ chClosed = [c \in Chans |-> FALSE]
    /\ pub = [p \in Publishers |-> IdlePub]
    /\ busPanic = FALSE
    /\ nMsgs = 0
    /\ msgDone = {}
    /\ msgPreds = [m \in Msgs |-> {}]
    /\ received = [c \in Chans |-> <<>>]

InFlight(t) ==
    {p \in Publishers : pub[p].pc \in {"send", "ret"} /\ pub[p].topic = t}

(***************************************************************************)
(* MessageBus.Subscribe: make a channel and append it under the lock.  A   *)
(* full backing array is reallocated; publishers iterating the old array   *)
(* keep it.                                                                *)
(***************************************************************************)
Subscribe(t, cap) ==
    /\ ~busPanic
    /\ nextCh < MaxChans
    /\ LET ch == nextCh + 1
           realloc == subLen[t] = Len(subArr[t])
           newArr == IF realloc
                     THEN Pad(Append(SubSeq(subArr[t], 1, subLen[t]), ch),
                              GrowCap(Len(subArr[t])))
                     ELSE [subArr[t] EXCEPT ![subLen[t] + 1] = ch]
       IN /\ nextCh' = ch
          /\ chCap' = [chCap EXCEPT ![ch] = cap]
          /\ subArr' = [subArr EXCEPT ![t] = newArr]
          /\ subLen' = [subLen EXCEPT ![t] = @ + 1]
          /\ pub' = [p \in Publishers |->
                        IF realloc /\ p \in InFlight(t) /\ pub[p].shared
                        THEN [pub[p] EXCEPT !.shared = FALSE, !.arr = subArr[t]]
                        ELSE pub[p]]
    /\ UNCHANGED <<chBuf, chClosed, busPanic, nMsgs, msgDone, msgPreds, received>>
    /\ UNCHANGED <<adVars, supVars, smVars, pmVars, mgVars, psVars>>

(***************************************************************************)
(* MessageBus.Unsubscribe: under the lock, close the channel and remove it *)
(* from the slice in place.                                                *)
(***************************************************************************)
Unsubscribe(t, ch) ==
    /\ ~busPanic
    /\ ch \in 1..nextCh
    /\ LET i == IndexOf(subArr[t], subLen[t], ch)
       IN /\ i # 0
          /\ chClosed' = [chClosed EXCEPT ![ch] = TRUE]
          /\ subArr' = [subArr EXCEPT ![t] = RemoveAt(@, subLen[t], i)]
          /\ subLen' = [subLen EXCEPT ![t] = @ - 1]
    /\ pub' = [p \in Publishers |->
                  IF p \in InFlight(t)
                  THEN [pub[p] EXCEPT !.covered = @ \ {ch}] ELSE pub[p]]
    /\ UNCHANGED <<nextCh, chCap, chBuf, busPanic, nMsgs, msgDone,
                   msgPreds, received>>
    /\ UNCHANGED <<adVars, supVars, smVars, pmVars, mgVars, psVars>>

(***************************************************************************)
(* MessageBus.Publish, first part: read the slice header under the read    *)
(* lock; with nobody subscribed the call is about to return.               *)
(***************************************************************************)
PublishBegin(p, t) ==
    /\ ~busPanic
    /\ pub[p].pc = "idle"
    /\ nMsgs < MaxMsgs
    /\ LET m == nMsgs + 1
       IN /\ nMsgs' = m
          /\ msgPreds' = [msgPreds EXCEPT ![m] = msgDone]
          /\ pub' = [pub EXCEPT ![p] =
                       [pc |-> IF subLen[t] = 0 THEN "ret" ELSE "send",
                        topic |-> t, msg |-> m, shared |-> TRUE, arr |-> <<>>,
                        len |-> subLen[t], i |-> 1,
                        covered |-> Registered(t), delivered |-> {},
                        dropped |-> {}]]
    /\ UNCHANGED <<subArr, subLen, nextCh, chCap, chBuf, chClosed,
                   busPanic, msgDone, received>>
    /\ UNCHANGED <<adVars, supVars, smVars, pmVars, mgVars, psVars>>

\* The element the range loop reads at its current index.
PubTarget(p) ==
    IF pub[p].shared THEN subArr[pub[p].topic][pub[p].i] ELSE pub[p].arr[pub[p].i]

(***************************************************************************)
(* MessageBus.Publish, one iteration of the range loop: a try-send to the  *)
(* channel found at index i.                                               *)
(***************************************************************************)
PublishSend(p) ==
    /\ ~busPanic
    /\ pub[p].pc = "send"
    /\ LET ch == PubTarget(p)
           m == pub[p].msg
           out == SendOutcome(ch)
           last == pub[p].i = pub[p].len
       IN /\ out # "blocked"
          /\ busPanic' = (out = "panic")
          /\ chBuf' = IF out = "sent"
                      THEN [chBuf EXCEPT ![ch] = ChanSend(@, m)] ELSE chBuf
          /\ pub' = [pub EXCEPT ![p] =
                       [@ EXCEPT
                          !.pc = IF out = "panic" THEN "panic"
                                 ELSE IF last THEN "ret" ELSE "send",
                          !.i = IF out = "panic" \/ last THEN @ ELSE @ + 1,
                          !.delivered = IF out = "sent" THEN @ \cup {ch} ELSE @,
                          !.dropped = IF out = "dropped" THEN @ \cup {ch} ELSE @]]
    /\ UNCHANGED <<subArr, subLen, nextCh, chCap, chClosed, nMsgs,
                   msgDone, msgPreds, received>>
    /\ UNCHANGED <<adVars, supVars, smVars, pmVars, mgVars, psVars>>

(***************************************************************************)
(* MessageBus.Publish returns to the adapter's reader.                     *)
(***************************************************************************)
PublishReturn(p) ==
    /\ ~busPanic
    /\ pub[p].pc = "ret"
    /\ msgDone' = msgDone \cup {pub[p].msg}
    /\ pub' = [pub EXCEPT ![p] = IdlePub]
    /\ UNCHANGED <<subArr, subLen, nextCh, chCap, chBuf, chClosed,
                   busPanic, nMsgs, msgPreds, received>>
    /\ UNCHANGED <<adVars, supVars, smVars, pmVars, mgVars, psVars>>

(***************************************************************************)
(* A subscriber takes the oldest message of its channel.                   *)
(***************************************************************************)
Consume(ch) ==
    /\ ~busPanic
    /\ ch \in 1..nextCh
    /\ chBuf[ch] # <<>>
    /\ received' = [received EXCEPT ![ch] = Append(@, Head(chBuf[ch]))]
    /\ chBuf' = [chBuf EXCEPT ![ch] = Tail(@)]
    /\ UNCHANGED <<subArr, subLen, nextCh, chCap, chClosed, pub,
                   busPanic, nMsgs, msgDone, msgPreds>>
    /\ UNCHANGED <<adVars, supVars, smVars, pmVars, mgVars, psVars>>

BusNext ==
    \/ \E t \in Topics, cap \in 1..MaxCap : Subscribe(t, cap)
    \/ \E t \in Topics, ch \in Chans : Unsubscribe(t, ch)
    \/ \E p \in Publishers : PublishBegin(p, PubTopic(p))
    \/ \E p \in Publishers : PublishSend(p)
    \/ \E p \in Publishers : PublishReturn(p)
    \/ \E ch \in Chans : Consume(ch)

(***************************************************************************)
(* One DataWorker and the venue adapter it owns.                           *)
(*                                                                         *)
(* The supervisor's tick reaches the worker through three calls: the       *)
(* creation branch (NewDataWorker, SetSubscriptionWithPairID, go Start),   *)
(* the update branch (SetSubscriptionWithPairID) and the removal (Stop).   *)
(* Start runs in its own goroutine; the adapter's reader and writer are    *)
(* goroutines too, and nothing but ws.Mutex orders them.                   *)
(***************************************************************************)
Venues == {"binance", "bybit", "kucoin", "coinex", "htx", "poloniex"}

\* Only Bybit's reader never looks at a.active.
ReaderChecksActive(v) == v # "bybit"

\* Kucoin and HTX start no WriteLoop.
StartsWriter(v) == v \notin {"kucoin", "htx"}

\* Kucoin fetches a session token between the REST ping and the dial, and
\* builds its socket client only then.
FetchesToken(v) == v = "kucoin"

\* HTX and Coinex keep no symbol -> pair id mapping and publish the parser's
\* message as it is.
KeepsPairIds(v) == v \notin {"htx", "coinex"}

\* Binance, Bybit and Poloniex delete the mapping of an unsubscribed symbol.
DropsPairIds(v) == v \in {"binance", "bybit", "poloniex"}

Pairs == {"X", "Z"}
PairLists == {<<"X">>, <<"Z">>, <<"X", "Z">>}
MarketType == "spot"
SubscriptionDepth == 5
ReconnectDelay == 3

Range(s) == {s[i] : i \in 1..Len(s)}

\* MarketPair.PairID of the catalog's symbols.
PairIDOf(sym) == IF sym = "X" THEN 1 ELSE 2

\* ParseSymbol: the unified spelling BASE/QUOTE that the parsers give to
\* msg.Symbol.  "X" is a symbol the catalog already spells that way, "Z" one
\* it spells as the venue does (BTCUSDT, BTC-USDT).
ParseSymbol(sym) == IF sym = "Z" THEN "Z/" ELSE sym

Frame(pairs, marketType, depth) ==
    [pairs |-> pairs, marketType |-> marketType, depth |-> depth]

NoFrame == Frame(<<>>, "", 0)

AdInit ==
    /\ venue = "none"
    /\ wk = "none"
    /\ marketPairs = <<>>
    /\ active = FALSE
    /\ conn = "nil"
    /\ connected = FALSE
    /\ wire = {}
    /\ lastPairs = <<>>
    /\ lastMarketType = ""
    /\ lastDepth = 0
    /\ starter = "none"
    /\ reader = "none"
    /\ rsArgs = NoFrame
    /\ slept = 0
    /\ attempts = 0
    /\ writer = "none"
    /\ stopPhase = ""
    /\ afterStop = {}
    /\ ticked = FALSE
    /\ lastRequest = NoFrame
    /\ resendOK = TRUE
    /\ ws = "nil"
    /\ pairIDMap = <<>>
    /\ decorated = TRUE

stopped == wk = "stopped"

\* An adapter that reports active only over a connected socket.
IsActiveConnected == active /\ ws # "nil" /\ connected

\* Adapter.IsActive: a.active && (a.ws == nil || a.ws.IsConnected()).
IsActive == active /\ (ws = "nil" \/ connected)

\* SubscribeMarketsWithPairID, its mapping part: remember the pair id of
\* each symbol under the catalog's spelling.
SubscribeMarketsWithPairID(map, pairs) ==
    IF KeepsPairIds(venue)
    THEN [sym \in DOMAIN map \cup Range(pairs) |->
             IF sym \in Range(pairs) THEN PairIDOf(sym) ELSE map[sym]]
    ELSE map

\* UnsubscribeMarketsWithPairID, its mapping part.
UnsubscribeMarketsWithPairID(map, pairs) ==
    IF DropsPairIds(venue)
    THEN [sym \in DOMAIN map \ Range(pairs) |-> map[sym]]
    ELSE map

\* msg.PairID of the message the reader publishes for a streamed symbol:
\* the mapping's entry for msg.Symbol, 0 where there is none.
PublishedPairID(sym) ==
    IF KeepsPairIds(venue) /\ ParseSymbol(sym) \in DOMAIN pairIDMap
    THEN pairIDMap[ParseSymbol(sym)]
    ELSE 0

\* A frame reaches the venue only over a healthy socket that the client
\* believes connected; otherwise the call returns an error or the frame is lost.
Delivers == connected /\ conn = "open"

\* UnsubscribeMarkets: the venue stops streaming the pairs.
UnsubscribeMarkets(w, pairs) == IF Delivers THEN w \ Range(pairs) ELSE w

\* SubscribeMarkets: the request is remembered first, then sent; w is what the
\* venue streamed before the call.
SubscribeMarkets(w, pairs, marketType, depth) ==
    /\ lastPairs' = pairs
    /\ lastMarketType' = marketType
    /\ lastDepth' = depth
    /\ wire' = IF Delivers THEN w \cup Range(pairs) ELSE w

\* The pause before reconnect attempt number n + 1, growing with n.
BackoffGrowing(n) == ReconnectDelay + n

\* time.Sleep(3 * time.Second), whatever the number of failed attempts.
Backoff(n) == ReconnectDelay

Saturate(n) == IF n < MaxAttempts THEN n + 1 ELSE n

(***************************************************************************)
(* The tick's creation branch: build the worker and its adapter, record    *)
(* the pair list (the adapter is not active, nothing is sent) and spawn    *)
(* the goroutine that runs Start.                                          *)
(***************************************************************************)
CreateWorker(v, L, hasWs) ==
    /\ wk = "none"
    /\ FetchesToken(v) => ~hasWs
    /\ ws' = IF hasWs THEN "client" ELSE "nil"
    /\ venue' = v
    /\ wk' = "live"
    /\ marketPairs' = L
    /\ starter' = "rest"
    /\ UNCHANGED <<active, conn, connected, wire, lastPairs, lastMarketType,
                   lastDepth, reader, rsArgs, slept, attempts, writer,
                   stopPhase, afterStop, ticked, lastRequest, resendOK>>
    /\ UNCHANGED <<pairIDMap, decorated>>
    /\ UNCHANGED <<busVars, supVars, smVars, pmVars, mgVars, psVars>>

(***************************************************************************)
(* Adapter.Start, step by step.                                            *)
(***************************************************************************)
\* The REST liveness probe.
StartRest(ok) ==
    /\ starter = "rest"
    /\ IF ok
       THEN /\ starter' = IF FetchesToken(venue) THEN "token" ELSE "connect"
            /\ UNCHANGED active
       ELSE /\ starter' = "failed"
            /\ active' = FALSE
    /\ UNCHANGED <<venue, wk, marketPairs, conn, connected, wire, lastPairs,
                   lastMarketType, lastDepth, reader, rsArgs, slept, attempts,
                   writer, stopPhase, afterStop, ticked, lastRequest, resendOK>>
    /\ UNCHANGED <<ws, pairIDMap, decorated>>
    /\ UNCHANGED <<busVars, supVars, smVars, pmVars, mgVars, psVars>>

\* Kucoin: the session token fetch.
StartToken(ok) ==
    /\ starter = "token"
    /\ IF ok
       THEN /\ starter' = "connect"
            /\ UNCHANGED active
       ELSE /\ starter' = "failed"
            /\ active' = FALSE
    /\ UNCHANGED <<venue, wk, marketPairs, conn, connected, wire, lastPairs,
                   lastMarketType, lastDepth, reader, rsArgs, slept, attempts,
                   writer, stopPhase, afterStop, ticked, lastRequest, resendOK>>
    /\ ws' = IF ok THEN "client" ELSE ws
    /\ UNCHANGED <<pairIDMap, decorated>>
    /\ UNCHANGED <<busVars, supVars, smVars, pmVars, mgVars, psVars>>

\* A Start that spawns its reader and writer before it dials.
StartConnectEager(ok) ==
    /\ starter = "connect"
    /\ ws = "nil" => ok
    /\ IF ws = "nil"
       THEN /\ starter' = "activate"
            /\ UNCHANGED <<active, conn, connected, wire, reader, writer>>
       ELSE /\ reader' = "top"
            /\ writer' = IF StartsWriter(venue) THEN "run" ELSE writer
            /\ IF ok
               THEN /\ conn' = "open"
                    /\ connected' = TRUE
                    /\ wire' = {}
                    /\ starter' = "activate"
                    /\ UNCHANGED active
               ELSE /\ starter' = "failed"
                    /\ active' = FALSE
                    /\ UNCHANGED <<conn, connected, wire>>
    /\ UNCHANGED <<venue, wk, marketPairs, lastPairs, lastMarketType,
                   lastDepth, rsArgs, slept, attempts, stopPhase, afterStop,
                   ticked, lastRequest, resendOK>>
    /\ UNCHANGED <<ws, pairIDMap, decorated>>
    /\ UNCHANGED <<busVars, supVars, smVars, pmVars, mgVars, psVars>>

\* Without a socket client (a.ws == nil) Start dials nothing and spawns
\* nothing.  Otherwise ws.Connect, then the go statements: the reader, and the
\* writer where the venue has one.
StartConnect(ok) ==
    /\ starter = "connect"
    /\ ws = "nil" => ok
    /\ IF ws = "nil"
       THEN /\ starter' = "activate"
            /\ UNCHANGED <<active, conn, connected, wire, reader, writer>>
       ELSE IF ok
       THEN /\ conn' = "open"
            /\ connected' = TRUE
            /\ wire' = {}
            /\ reader' = "top"
            /\ writer' = IF StartsWriter(venue) THEN "run" ELSE writer
            /\ starter' = "activate"
            /\ UNCHANGED active
       ELSE /\ starter' = "failed"
            /\ active' = FALSE
            /\ UNCHANGED <<conn, connected, wire, reader, writer>>
    /\ UNCHANGED <<venue, wk, marketPairs, lastPairs, lastMarketType,
                   lastDepth, rsArgs, slept, attempts, stopPhase, afterStop,
                   ticked, lastRequest, resendOK>>
    /\ UNCHANGED <<ws, pairIDMap, decorated>>
    /\ UNCHANGED <<busVars, supVars, smVars, pmVars, mgVars, psVars>>

\* a.active = true, after the goroutines have been spawned.
StartActivate ==
    /\ starter = "activate"
    /\ active' = TRUE
    /\ starter' = "subscribe"
    /\ UNCHANGED <<venue, wk, marketPairs, conn, connected, wire, lastPairs,
                   lastMarketType, lastDepth, reader, rsArgs, slept, attempts,
                   writer, stopPhase, afterStop, ticked, lastRequest, resendOK>>
    /\ UNCHANGED <<ws, pairIDMap, decorated>>
    /\ UNCHANGED <<busVars, supVars, smVars, pmVars, mgVars, psVars>>

\* DataWorker.Start after adapter.Start returned nil: subscribe the worker's
\* pair list; an error is only logged.
StartSubscribe ==
    /\ starter = "subscribe"
    /\ starter' = "done"
    /\ IF Len(marketPairs) > 0
       THEN /\ pairIDMap' = SubscribeMarketsWithPairID(pairIDMap, marketPairs)
            /\ SubscribeMarkets(wire, marketPairs, MarketType, SubscriptionDepth)
            /\ lastRequest' = Frame(marketPairs, MarketType, SubscriptionDepth)
       ELSE UNCHANGED <<pairIDMap, lastPairs, lastMarketType, lastDepth, wire,
                        lastRequest>>
    /\ UNCHANGED <<venue, wk, marketPairs, active, conn, connected, reader,
                   rsArgs, slept, attempts, writer, stopPhase, afterStop,
                   ticked, resendOK>>
    /\ UNCHANGED <<ws, decorated>>
    /\ UNCHANGED <<busVars, supVars, smVars, pmVars, mgVars, psVars>>

(***************************************************************************)
(* The tick's update branch, DataWorker.SetSubscriptionWithPairID: drop    *)
(* all old pairs, record the new list, and subscribe it only if the        *)
(* adapter is active at that moment.                                       *)
(***************************************************************************)
SetSubscriptionWithPairID(L) ==
    /\ wk = "live"
    /\ LET w == IF Len(marketPairs) > 0
                THEN UnsubscribeMarkets(wire, marketPairs) ELSE wire
           map == IF Len(marketPairs) > 0
                  THEN UnsubscribeMarketsWithPairID(pairIDMap, marketPairs)
                  ELSE pairIDMap
       IN IF Len(L) > 0 /\ IsActive
          THEN /\ pairIDMap' = SubscribeMarketsWithPairID(map, L)
               /\ SubscribeMarkets(w, L, MarketType, SubscriptionDepth)
               /\ lastRequest' = Frame(L, MarketType, SubscriptionDepth)
          ELSE /\ pairIDMap' = map
               /\ wire' = w
               /\ UNCHANGED <<lastPairs, lastMarketType, lastDepth, lastRequest>>
    /\ marketPairs' = L
    /\ ticked' = TRUE
    /\ UNCHANGED <<venue, wk, active, conn, connected, starter, reader, rsArgs,
                   slept, attempts, writer, stopPhase, afterStop, resendOK>>
    /\ UNCHANGED <<ws, decorated>>
    /\ UNCHANGED <<busVars, supVars, smVars, pmVars, mgVars, psVars>>

(***************************************************************************)
(* The tick's removal, DataWorker.Stop -> Adapter.Stop: clear the flag and *)
(* close the socket; the worker is forgotten.                              *)
(***************************************************************************)
Stop ==
    /\ wk = "live"
    /\ wk' = "stopped"
    /\ stopPhase' = starter
    /\ active' = FALSE
    /\ IF conn # "nil"
       THEN conn' = "nil" /\ connected' = FALSE /\ wire' = {}
       ELSE UNCHANGED <<conn, connected, wire>>
    /\ UNCHANGED <<venue, marketPairs, lastPairs, lastMarketType, lastDepth,
                   starter, reader, rsArgs, slept, attempts, writer, afterStop,
                   ticked, lastRequest, resendOK>>
    /\ UNCHANGED <<ws, pairIDMap, decorated>>
    /\ UNCHANGED <<busVars, supVars, smVars, pmVars, mgVars, psVars>>

(***************************************************************************)
(* readLoopWithReconnect.                                                  *)
(***************************************************************************)
\* What a task does in an iteration begun after Stop.
Noted(event) == IF stopped THEN afterStop \cup {event} ELSE afterStop

\* Head of the outer loop.
ReaderTop ==
    /\ reader = "top"
    /\ reader' = IF ReaderChecksActive(venue) /\ ~active THEN "exited" ELSE "read"
    /\ UNCHANGED <<venue, wk, marketPairs, active, conn, connected, wire,
                   lastPairs, lastMarketType, lastDepth, starter, rsArgs,
                   slept, attempts, writer, stopPhase, afterStop, ticked,
                   lastRequest, resendOK>>
    /\ UNCHANGED <<ws, pairIDMap, decorated>>
    /\ UNCHANGED <<busVars, supVars, smVars, pmVars, mgVars, psVars>>

\* ws.ReadMessage returns a frame of a subscribed symbol; it is parsed,
\* given its pair id and published under the venue's name.
ReaderPublish(sym) ==
    /\ reader = "read"
    /\ conn = "open"
    /\ sym \in wire
    /\ reader' = "top"
    /\ decorated' = (decorated /\ PublishedPairID(sym) = PairIDOf(sym))
    /\ afterStop' = Noted("publish")
    /\ UNCHANGED <<venue, wk, marketPairs, active, conn, connected, wire,
                   lastPairs, lastMarketType, lastDepth, starter, rsArgs,
                   slept, attempts, writer, stopPhase, ticked, lastRequest,
                   resendOK>>
    /\ UNCHANGED <<ws, pairIDMap>>
    /\ UNCHANGED <<busVars, supVars, smVars, pmVars, mgVars, psVars>>

\* ws.ReadMessage returns an error: Conn is nil or the link has failed.  The
\* client's connected flag is left alone.
ReaderReadError ==
    /\ reader = "read"
    /\ conn # "open"
    /\ reader' = "backoff"
    /\ attempts' = 0
    /\ UNCHANGED <<venue, wk, marketPairs, active, conn, connected, wire,
                   lastPairs, lastMarketType, lastDepth, starter, rsArgs,
                   slept, writer, stopPhase, afterStop, ticked, lastRequest,
                   resendOK>>
    /\ UNCHANGED <<ws, pairIDMap, decorated>>
    /\ UNCHANGED <<busVars, supVars, smVars, pmVars, mgVars, psVars>>

\* Head of the reconnect loop.
ReaderBackoff ==
    /\ reader = "backoff"
    /\ IF ReaderChecksActive(venue) /\ ~active
       THEN reader' = "exited" /\ UNCHANGED afterStop
       ELSE reader' = "sleep" /\ afterStop' = Noted("reconnect")
    /\ UNCHANGED <<venue, wk, marketPairs, active, conn, connected, wire,
                   lastPairs, lastMarketType, lastDepth, starter, rsArgs,
                   slept, attempts, writer, stopPhase, ticked, lastRequest,
                   resendOK>>
    /\ UNCHANGED <<ws, pairIDMap, decorated>>
    /\ UNCHANGED <<busVars, supVars, smVars, pmVars, mgVars, psVars>>

\* The pause before the attempt.
ReaderSleep ==
    /\ reader = "sleep"
    /\ slept' = Backoff(attempts)
    /\ reader' = "dial"
    /\ UNCHANGED <<venue, wk, marketPairs, active, conn, connected, wire,
                   lastPairs, lastMarketType, lastDepth, starter, rsArgs,
                   attempts, writer, stopPhase, afterStop, ticked,
                   lastRequest, resendOK>>
    /\ UNCHANGED <<ws, pairIDMap, decorated>>
    /\ UNCHANGED <<busVars, supVars, smVars, pmVars, mgVars, psVars>>

\* ws.Reconnect: the old socket is dropped, then the dial succeeds or fails.
ReaderReconnect(ok) ==
    /\ reader = "dial"
    /\ wire' = {}
    /\ slept' = 0
    /\ IF ok
       THEN /\ conn' = "open"
            /\ connected' = TRUE
            /\ reader' = "resub"
            /\ UNCHANGED attempts
       ELSE /\ conn' = "nil"
            /\ connected' = FALSE
            /\ reader' = "backoff"
            /\ attempts' = Saturate(attempts)
    /\ UNCHANGED <<venue, wk, marketPairs, active, lastPairs, lastMarketType,
                   lastDepth, starter, rsArgs, writer, stopPhase, afterStop,
                   ticked, lastRequest, resendOK>>
    /\ UNCHANGED <<ws, pairIDMap, decorated>>
    /\ UNCHANGED <<busVars, supVars, smVars, pmVars, mgVars, psVars>>

\* The reader evaluates a.lastPairs, a.lastMarketType, a.lastDepth, the
\* arguments of its resubscribe call, with no lock held.
ReaderResubArgs ==
    /\ reader = "resub"
    /\ rsArgs' = Frame(lastPairs, lastMarketType, lastDepth)
    /\ reader' = "resubCall"
    /\ UNCHANGED <<venue, wk, marketPairs, active, conn, connected, wire,
                   lastPairs, lastMarketType, lastDepth, starter, slept,
                   attempts, writer, stopPhase, afterStop, ticked,
                   lastRequest, resendOK>>
    /\ UNCHANGED <<ws, pairIDMap, decorated>>
    /\ UNCHANGED <<busVars, supVars, smVars, pmVars, mgVars, psVars>>

\* The reader's SubscribeMarkets call; an error is only logged, and the loop
\* goes back to reading.
ReaderResubscribe ==
    /\ reader = "resubCall"
    /\ SubscribeMarkets(wire, rsArgs.pairs, rsArgs.marketType, rsArgs.depth)
    /\ resendOK' = (resendOK /\ rsArgs = lastRequest)
    /\ rsArgs' = NoFrame
    /\ reader' = "top"
    /\ UNCHANGED <<venue, wk, marketPairs, active, conn, connected, starter,
                   slept, attempts, writer, stopPhase, afterStop, ticked,
                   lastRequest>>
    /\ UNCHANGED <<ws, pairIDMap, decorated>>
    /\ UNCHANGED <<busVars, supVars, smVars, pmVars, mgVars, psVars>>

(***************************************************************************)
(* ws.WriteLoop, one tick of its ticker: return when Conn is nil or the    *)
(* write fails, else a ping has been sent.                                 *)
(***************************************************************************)
WriteLoop ==
    /\ writer = "run"
    /\ IF conn = "open"
       THEN /\ afterStop' = Noted("ping")
            /\ UNCHANGED writer
       ELSE /\ writer' = "exited"
            /\ UNCHANGED afterStop
    /\ UNCHANGED <<venue, wk, marketPairs, active, conn, connected, wire,
                   lastPairs, lastMarketType, lastDepth, starter, reader,
                   rsArgs, slept, attempts, stopPhase, ticked, lastRequest,
                   resendOK>>
    /\ UNCHANGED <<ws, pairIDMap, decorated>>
    /\ UNCHANGED <<busVars, supVars, smVars, pmVars, mgVars, psVars>>

\* The network: the link of the open socket fails.
LinkFails ==
    /\ conn = "open"
    /\ conn' = "broken"
    /\ UNCHANGED <<venue, wk, marketPairs, active, connected, wire, lastPairs,
                   lastMarketType, lastDepth, starter, reader, rsArgs, slept,
                   attempts, writer, stopPhase, afterStop, ticked,
                   lastRequest, resendOK>>
    /\ UNCHANGED <<ws, pairIDMap, decorated>>
    /\ UNCHANGED <<busVars, supVars, smVars, pmVars, mgVars, psVars>>

AdNext ==
    \/ \E v \in Venues, L \in PairLists, hasWs \in BOOLEAN :
           CreateWorker(v, L, hasWs)
    \/ \E ok \in BOOLEAN : StartRest(ok)
    \/ \E ok \in BOOLEAN : StartToken(ok)
    \/ \E ok \in BOOLEAN : StartConnect(ok)
    \/ StartActivate
    \/ StartSubscribe
    \/ \E L \in PairLists : SetSubscriptionWithPairID(L)
    \/ Stop
    \/ ReaderTop
    \/ \E sym \in Pairs : ReaderPublish(sym)
    \/ ReaderReadError
    \/ ReaderBackoff
    \/ ReaderSleep
    \/ \E ok \in BOOLEAN : ReaderReconnect(ok)
    \/ ReaderResubArgs
    \/ ReaderResubscribe
    \/ WriteLoop
    \/ LinkFails

(***************************************************************************)
(* worker.DataMonitor: the map of workers by key and the three counters.   *)
(* A worker is identified by the goroutine that runs its Start; what the   *)
(* worker does with its adapter is the adapter's specification.            *)
(***************************************************************************)
Keys == {"binance|spot", "kucoin|futures", "acme|spot"}

\* The order in which one tick numbers the workers it creates.
KeyOrder == <<"binance|spot", "kucoin|futures", "acme|spot">>

\* The exchange name and the market type of a key.
VenueOf(k) ==
    CASE k = "binance|spot" -> "binance"
      [] k = "kucoin|futures" -> "kucoin"
      [] OTHER -> "acme"
MarketTypeOf(k) == IF k = "kucoin|futures" THEN "futures" ELSE "spot"

\* NewAdapter: a name outside its switch gets a StubAdapter, whose Start
\* returns nil.
UsesStub(k) == VenueOf(k) \notin Venues

\* A key whose venue has an adapter and whose market type the adapters
\* subscribe.
SupportedKey(k) == VenueOf(k) \in Venues /\ MarketTypeOf(k) = MarketType
Rank(k) == CHOOSE i \in 1..Len(KeyOrder) : KeyOrder[i] = k

Starts == 1..MaxStarts
NoWorker == 0

SupInit ==
    /\ workers = [k \in Keys |-> NoWorker]
    /\ startGo = [g \in Starts |-> [pc |-> "none", seen |-> 0, stub |-> FALSE]]
    /\ lastRead = "none"
    /\ totalStarted = 0
    /\ totalStopped = 0
    /\ totalErrors = 0
    /\ nTicks = 0
    /\ lastD = {}
    /\ lastF = {}
    /\ retryDue = {}
    /\ attempted = {}
    /\ dmStop = "none"
    /\ dmLoop = "run"

\* Keys of dm.workers.
RunningKeys == {k \in Keys : workers[k] # NoWorker}

\* A tick that forgets nothing.
NoStaleKeys(D) == {}

\* Workers whose key is not in the catalog any more.
StaleKeys(D) == {k \in Keys : workers[k] # NoWorker /\ k \notin D}

\* Desired keys that have no worker.
MissingKeys(D) == {k \in D : workers[k] = NoWorker}

\* The Start of the key's worker has returned an error.
StartFailed(k) == workers[k] # NoWorker /\ startGo[workers[k]].pc = "failed"

NewId(k, created) ==
    totalStarted + Cardinality({j \in created : Rank(j) <= Rank(k)})

(***************************************************************************)
(* DataMonitor.UpdateWorkersFromPairs, under workersMutex.  D is the key   *)
(* set of the catalog rows, F the missing keys whose getExchangeByName     *)
(* fails.                                                                  *)
(***************************************************************************)
UpdateWorkersFromPairs(D, F) ==
    /\ dmLoop = "run"
    /\ nTicks < MaxTicks
    /\ F \subseteq MissingKeys(D)
    /\ LET created == MissingKeys(D) \ F
           stale == StaleKeys(D)
       IN /\ totalStarted + Cardinality(created) <= MaxStarts
          /\ workers' = [k \in Keys |->
                            IF k \in created THEN NewId(k, created)
                            ELSE IF k \in stale THEN NoWorker
                            ELSE workers[k]]
          /\ startGo' = [g \in Starts |->
                            IF \E k \in created : NewId(k, created) = g
                            THEN [pc |-> "run", seen |-> 0,
                                  stub |-> \E k \in created :
                                              NewId(k, created) = g /\ UsesStub(k)]
                            ELSE startGo[g]]
          /\ totalStarted' = totalStarted + Cardinality(created)
          /\ totalStopped' = totalStopped + Cardinality(stale)
          /\ totalErrors' = totalErrors + Cardinality(F)
    /\ attempted' = MissingKeys(D)
    /\ retryDue' = {k \in D : k \in lastF \/ StartFailed(k)}
    /\ nTicks' = nTicks + 1
    /\ lastD' = D
    /\ lastF' = F
    /\ lastRead' = "ok"
    /\ UNCHANGED <<dmStop, dmLoop>>
    /\ UNCHANGED <<busVars, adVars, smVars, pmVars, mgVars, psVars>>

\* A tick that takes a failed catalog read for an empty catalog.
CatalogErrorAsEmpty ==
    /\ dmLoop = "run"
    /\ nTicks < MaxTicks
    /\ nTicks' = nTicks + 1
    /\ lastRead' = "error"
    /\ workers' = [k \in Keys |-> NoWorker]
    /\ totalStopped' = totalStopped + Cardinality(RunningKeys)
    /\ UNCHANGED <<startGo, totalStarted, totalErrors, lastD, lastF, retryDue,
                   attempted>>
    /\ UNCHANGED <<dmStop, dmLoop>>
    /\ UNCHANGED <<busVars, adVars, smVars, pmVars, mgVars, psVars>>

\* DataMonitor.Start, a tick whose catalog read fails: continue.
CatalogError ==
    /\ dmLoop = "run"
    /\ nTicks < MaxTicks
    /\ nTicks' = nTicks + 1
    /\ lastRead' = "error"
    /\ UNCHANGED <<workers, startGo, totalStarted, totalStopped, totalErrors,
                   lastD, lastF, retryDue, attempted>>
    /\ UNCHANGED <<dmStop, dmLoop>>
    /\ UNCHANGED <<busVars, adVars, smVars, pmVars, mgVars, psVars>>

\* The goroutine of a worker: w.Start() returns nil.
StartReturnsNil(g) ==
    /\ startGo[g].pc = "run"
    /\ startGo' = [startGo EXCEPT ![g].pc = "ok"]
    /\ UNCHANGED <<workers, totalStarted, totalStopped, totalErrors, nTicks,
                   lastD, lastF, retryDue, attempted, lastRead>>
    /\ UNCHANGED <<dmStop, dmLoop>>
    /\ UNCHANGED <<busVars, adVars, smVars, pmVars, mgVars, psVars>>

\* w.Start() returns an error; incErrors reads the counter, no lock held.
StartReturnsError(g) ==
    /\ startGo[g].pc = "run"
    /\ ~startGo[g].stub
    /\ startGo' = [startGo EXCEPT ![g].pc = "inc", ![g].seen = totalErrors]
    /\ UNCHANGED <<workers, totalStarted, totalStopped, totalErrors, nTicks,
                   lastD, lastF, retryDue, attempted, lastRead>>
    /\ UNCHANGED <<dmStop, dmLoop>>
    /\ UNCHANGED <<busVars, adVars, smVars, pmVars, mgVars, psVars>>

\* incErrors writes back the value it read, plus one.
IncErrorsWrite(g) ==
    /\ startGo[g].pc = "inc"
    /\ totalErrors' = startGo[g].seen + 1
    /\ startGo' = [startGo EXCEPT ![g].pc = "failed", ![g].seen = 0]
    /\ UNCHANGED <<workers, totalStarted, totalStopped, nTicks, lastD, lastF,
                   retryDue, attempted, lastRead>>
    /\ UNCHANGED <<dmStop, dmLoop>>
    /\ UNCHANGED <<busVars, adVars, smVars, pmVars, mgVars, psVars>>

\* DataMonitor.Stop, under workersMutex: every worker is stopped and deleted
\* from dm.workers; the counters stay as they are.
DataMonitorStopWorkers ==
    /\ dmStop = "none"
    /\ dmStop' = "close"
    /\ workers' = [k \in Keys |-> NoWorker]
    /\ UNCHANGED <<startGo, totalStarted, totalStopped, totalErrors, nTicks,
                   lastD, lastF, retryDue, attempted, lastRead, dmLoop>>
    /\ UNCHANGED <<busVars, adVars, smVars, pmVars, mgVars, psVars>>

\* DataMonitor.Stop, after the lock is released: dm.wg.Wait() (nothing was
\* ever added to dm.wg) and close(dm.stopChan); Stop returns.
DataMonitorStopClose ==
    /\ dmStop = "close"
    /\ dmStop' = "returned"
    /\ UNCHANGED <<workers, startGo, totalStarted, totalStopped, totalErrors,
                   nTicks, lastD, lastF, retryDue, attempted, lastRead, dmLoop>>
    /\ UNCHANGED <<busVars, adVars, smVars, pmVars, mgVars, psVars>>

\* The ticker goroutine: its select takes <-dm.stopChan and it returns.
DataMonitorLoopExit ==
    /\ dmStop = "returned"
    /\ dmLoop = "run"
    /\ dmLoop' = "exited"
    /\ UNCHANGED <<workers, startGo, totalStarted, totalStopped, totalErrors,
                   nTicks, lastD, lastF, retryDue, attempted, lastRead, dmStop>>
    /\ UNCHANGED <<busVars, adVars, smVars, pmVars, mgVars, psVars>>

SupNext ==
    \/ \E D \in SUBSET Keys : \E F \in SUBSET D : UpdateWorkersFromPairs(D, F)
    \/ CatalogError
    \/ \E g \in Starts : StartReturnsNil(g)
    \/ \E g \in Starts : StartReturnsError(g)
    \/ \E g \in Starts : IncErrorsWrite(g)

\* The supervisor with its Stop.
SupStopNext ==
    \/ \E D \in SUBSET Keys : \E F \in SUBSET D : UpdateWorkersFromPairs(D, F)
    \/ CatalogError
    \/ \E g \in Starts : StartReturnsNil(g)
    \/ \E g \in Starts : StartReturnsError(g)
    \/ \E g \in Starts : IncErrorsWrite(g)
    \/ DataMonitorStopWorkers
    \/ DataMonitorStopClose
    \/ DataMonitorLoopExit

(***************************************************************************)
(* PriceMonitor: the order book cache and the periodic write.              *)
(***************************************************************************)
PairIds == {1, 2}
RowLevels == 5

\* The steps of the save transaction for at most one row per pair; 0 is no
\* failing step.
FailSteps == 0..(Cardinality(PairIds) + 3)

\* Depths of a side that the venues' books take here: none, three levels (a
\* short side), more than a row holds.
BidCounts == {0, 3, MaxLevels}
AskCounts == {0, MaxLevels}

ZeroLevel == [price |-> 0, volume |-> 0]
BidLevel(i) == [price |-> 100 - i, volume |-> i]
AskLevel(i) == [price |-> 100 + i, volume |-> 10 + i]

\* A book with nb bids (best first, descending) and na asks (ascending).
Book(nb, na) == [bids |-> [i \in 1..nb |-> BidLevel(i)],
                 asks |-> [i \in 1..na |-> AskLevel(i)]]

NoTick == [t |-> 0, pairs |-> {}, books |-> <<>>, dbOk |-> FALSE, ran |-> FALSE,
           seen |-> <<>>, partial |-> FALSE, failed |-> {}]

\* Kinds of bus messages.  A pair id of 0 is a message of an unmapped
\* symbol, UnmonitoredPair the id of a pair that the monitoring query did not
\* return when PriceMonitor.Start ran.
MessageTypes == {"orderbook", "ticker"}
UnmonitoredPair == 3
MsgPairIds == PairIds \cup {0, UnmonitoredPair}

SmInit ==
    /\ dbPairs = PairIds
    /\ monitoringPairs = dbPairs
    /\ orderBooks = <<>>
    /\ now = 1
    /\ table = <<>>
    /\ lastTick = NoTick
    /\ lastSeen = <<>>

\* The five slots of a side, filled from the end of the side.
LastFive(levels) ==
    [i \in 1..RowLevels |->
        IF i <= Len(levels) THEN levels[Len(levels) + 1 - i] ELSE ZeroLevel]

\* The five slots of a side: level i where the side has one, else zero.
FirstFive(levels) ==
    [i \in 1..RowLevels |-> IF i <= Len(levels) THEN levels[i] ELSE ZeroLevel]

\* collectPriceData: the rows (none or one) of a pair at a timestamp.
collectPriceData(pair, timestamp) ==
    IF pair \notin DOMAIN orderBooks THEN <<>>
    ELSE LET bids == orderBooks[pair].bids
             asks == orderBooks[pair].asks
         IN IF Len(bids) = 0 \/ Len(asks) = 0 THEN <<>>
            ELSE <<[pair_id |-> pair, price_timestamp |-> timestamp,
                    asks |-> FirstFive(asks), bids |-> FirstFive(bids)]>>

\* priceDataList for the pairs with id up to n, in the order of the query.
RECURSIVE PriceDataList(_, _, _)
PriceDataList(pairs, n, timestamp) ==
    IF n = 0 THEN <<>>
    ELSE PriceDataList(pairs, n - 1, timestamp)
         \o (IF n \in pairs THEN collectPriceData(n, timestamp) ELSE <<>>)

\* A cache that keeps the first book of a pair.
handleOrderBookMessageKeepFirst(cache, pair, book) ==
    [p \in DOMAIN cache \cup {pair} |->
        IF p \in DOMAIN cache THEN cache[p] ELSE book]

\* handleOrderBookMessage: the book replaces the cache entry of its pair id.
handleOrderBookMessage(cache, pair, book) ==
    [p \in DOMAIN cache \cup {pair} |-> IF p = pair THEN book ELSE cache[p]]

\* processMessages, one message taken from pm.subscriber: only an order book
\* message with a positive pair id of pm.monitoringPairs reaches the cache.
processMessages(msgType, pair, nb, na) ==
    /\ now <= MaxTime
    /\ orderBooks' = IF /\ msgType = "orderbook"
                        /\ pair > 0
                        /\ pair \in monitoringPairs
                     THEN handleOrderBookMessage(orderBooks, pair, Book(nb, na))
                     ELSE orderBooks
    /\ lastSeen' = IF msgType = "orderbook" /\ pair \in PairIds
                   THEN [p \in DOMAIN lastSeen \cup {pair} |->
                            IF p = pair THEN Book(nb, na) ELSE lastSeen[p]]
                   ELSE lastSeen
    /\ UNCHANGED <<dbPairs, monitoringPairs, now, table, lastTick>>
    /\ UNCHANGED <<busVars, adVars, supVars, pmVars, mgVars, psVars>>

\* savePriceData with every insert committed on its own.
savePriceDataAutocommit(tbl, priceDataList, failStep) ==
    LET n == Len(priceDataList)
        inserted == IF failStep = 0 \/ failStep > n + 2 THEN priceDataList
                    ELSE IF failStep <= 2 THEN <<>>
                    ELSE SubSeq(priceDataList, 1, failStep - 3)
    IN tbl \o inserted

\* savePriceData: BeginTx (step 1), Prepare (step 2), one Exec per row (steps
\* 3 .. n + 2), Commit (step n + 3); failStep is the step that returns an
\* error, 0 if none does.  The rows executed before the error belong to the
\* transaction, which the deferred Rollback discards.
savePriceData(tbl, priceDataList, failStep) ==
    LET n == Len(priceDataList)
        inserted == IF failStep = 0 \/ failStep > n + 2 THEN priceDataList
                    ELSE IF failStep <= 2 THEN <<>>
                    ELSE SubSeq(priceDataList, 1, failStep - 3)
    IN IF failStep = 0 THEN tbl \o inserted ELSE tbl

\* monitorLoop -> collectAndSavePrices at time now: read the monitored pairs,
\* collect a row per pair and, if there is any row, save them in one
\* transaction whose step failStep fails (0: it commits).
collectAndSavePrices(failStep) ==
    /\ now <= MaxTime
    /\ LET timestamp == now
           priceDataList == PriceDataList(dbPairs, UnmonitoredPair, timestamp)
           dbOk == failStep = 0
       IN /\ failStep <= Len(priceDataList) + 3
          /\ Len(priceDataList) = 0 => failStep = 0
          /\ table' = IF Len(priceDataList) = 0 THEN table
                      ELSE savePriceData(table, priceDataList, failStep)
          /\ lastTick' = [t |-> timestamp, pairs |-> dbPairs,
                          books |-> orderBooks, dbOk |-> dbOk, ran |-> TRUE,
                          seen |-> lastSeen,
                          partial |-> lastTick.partial \/ failStep > 3,
                          failed |-> IF dbOk THEN lastTick.failed
                                     ELSE lastTick.failed \cup {timestamp}]
    /\ now' = now + 1
    /\ UNCHANGED <<dbPairs, monitoringPairs, orderBooks, lastSeen>>
    /\ UNCHANGED <<busVars, adVars, supVars, pmVars, mgVars, psVars>>

\* The catalog: the monitoring query returns another set of pairs, some of
\* the pairs it returned when the sampler started or all of them and one more.
MonitoringChanges(S) ==
    /\ now <= MaxTime
    /\ S # dbPairs
    /\ dbPairs' = S
    /\ UNCHANGED <<monitoringPairs, orderBooks, now, table, lastTick,
                   lastSeen>>
    /\ UNCHANGED <<busVars, adVars, supVars, pmVars, mgVars, psVars>>

SmNext ==
    \/ \E msgType \in MessageTypes, pair \in MsgPairIds,
          nb \in BidCounts, na \in AskCounts :
           processMessages(msgType, pair, nb, na)
    \/ \E failStep \in FailSteps : collectAndSavePrices(failStep)
    \/ \E S \in SUBSET PairIds \cup {PairIds \cup {UnmonitoredPair}} :
           MonitoringChanges(S)

(***************************************************************************)
(* PriceMonitor, its life cycle: Start loads the pairs, makes the internal *)
(* channel and spawns one forwarder per exchange, the consumer and the     *)
(* ticker task; Stop cancels the context, closes the internal channel and  *)
(* waits on the WaitGroup.  Start runs in a goroutine of the manager, so   *)
(* Stop may be called at any point of it.                                  *)
(***************************************************************************)
\* Forwarders (the code has one per exchange) and the capacity of
\* pm.subscriber that the model tells apart.
MaxForwarders == 2
MaxSubscriberCap == 1

Forwarders == 1..MaxForwarders

PmInit ==
    /\ pmStart = "none"
    /\ pmSpawned = 0
    /\ pmCancelled = FALSE
    /\ subscriber = "nil"
    /\ subscriberLen = 0
    /\ wg = 0
    /\ forwarder = [f \in Forwarders |-> "none"]
    /\ consumer = "none"
    /\ monitorLoop = "none"
    /\ pmStop = "none"
    /\ pmStopAt = "none"
    /\ pmPanic = FALSE
    /\ pmQueues = 0

\* Goroutines of the sampler that have been spawned and have not returned.
PmTasksRunning ==
    \/ \E f \in Forwarders : forwarder[f] \in {"select", "forward"}
    \/ consumer = "select"
    \/ monitorLoop = "select"

\* The spawned tasks whose function defers a recover(): the ticker goroutine
\* of the supervisor, and none of the sampler or of the adapters.
Recovers(task) == task = "supervisor"

\* The manager's goroutine calls PriceMonitor.Start.
PmStartCalled ==
    /\ ~pmPanic
    /\ pmStart = "none"
    /\ pmStart' = "load"
    /\ UNCHANGED <<pmSpawned, pmCancelled, subscriber, subscriberLen, wg,
                   forwarder, consumer, monitorLoop, pmStop, pmStopAt, pmPanic>>
    /\ UNCHANGED pmQueues
    /\ UNCHANGED <<busVars, adVars, supVars, smVars, mgVars, psVars>>

\* getMonitoringPairs: on an error Start returns it; otherwise the pairs are
\* stored and the internal channel is made.
PmStartLoad(ok) ==
    /\ ~pmPanic
    /\ pmStart = "load"
    /\ IF ok
       THEN pmStart' = "spawn" /\ subscriber' = "open"
       ELSE pmStart' = "failed" /\ UNCHANGED subscriber
    /\ UNCHANGED <<pmSpawned, pmCancelled, subscriberLen, wg, forwarder,
                   consumer, monitorLoop, pmStop, pmStopAt, pmPanic>>
    /\ UNCHANGED pmQueues
    /\ UNCHANGED <<busVars, adVars, supVars, smVars, mgVars, psVars>>

\* wg.Add(1) and a go statement: the forwarders first, each with the queue
\* that pm.bus.Subscribe has registered for it, then processMessages, then
\* monitorLoop; after the last one Start returns nil.
PmStartSpawn ==
    /\ ~pmPanic
    /\ pmStart = "spawn"
    /\ pmSpawned' = pmSpawned + 1
    /\ wg' = wg + 1
    /\ forwarder' = IF pmSpawned < MaxForwarders
                    THEN [forwarder EXCEPT ![pmSpawned + 1] = "select"]
                    ELSE forwarder
    /\ consumer' = IF pmSpawned = MaxForwarders THEN "select" ELSE consumer
    /\ monitorLoop' = IF pmSpawned = MaxForwarders + 1 THEN "select"
                      ELSE monitorLoop
    /\ pmStart' = IF pmSpawned = MaxForwarders + 1 THEN "returned" ELSE pmStart
    /\ pmQueues' = IF pmSpawned < MaxForwarders THEN pmQueues + 1 ELSE pmQueues
    /\ UNCHANGED <<pmCancelled, subscriber, subscriberLen, pmStop, pmStopAt,
                   pmPanic>>
    /\ UNCHANGED <<busVars, adVars, supVars, smVars, mgVars, psVars>>

\* forwardMessages, the outer select takes a message of the bus queue.
forwardReceive(f) ==
    /\ ~pmPanic
    /\ forwarder[f] = "select"
    /\ forwarder' = [forwarder EXCEPT ![f] = "forward"]
    /\ UNCHANGED <<pmStart, pmSpawned, pmCancelled, subscriber, subscriberLen,
                   wg, consumer, monitorLoop, pmStop, pmStopAt, pmPanic>>
    /\ UNCHANGED pmQueues
    /\ UNCHANGED <<busVars, adVars, supVars, smVars, mgVars, psVars>>

\* forwardMessages, either select takes <-pm.ctx.Done(): return, wg.Done().
forwardExit(f) ==
    /\ ~pmPanic
    /\ forwarder[f] \in {"select", "forward"}
    /\ pmCancelled
    /\ forwarder' = [forwarder EXCEPT ![f] = "exited"]
    /\ wg' = wg - 1
    /\ UNCHANGED <<pmStart, pmSpawned, pmCancelled, subscriber, subscriberLen,
                   consumer, monitorLoop, pmStop, pmStopAt, pmPanic>>
    /\ UNCHANGED pmQueues
    /\ UNCHANGED <<busVars, adVars, supVars, smVars, mgVars, psVars>>

\* What the send case of the inner select does when select takes it, "none"
\* when it cannot proceed: a send on a closed channel proceeds, and panics.
ForwardOutcome ==
    IF subscriber = "closed" THEN "panic"
    ELSE IF subscriberLen < MaxSubscriberCap THEN "sent"
    ELSE "none"

\* forwardMessages, the inner select takes pm.subscriber <- msg, or default
\* when neither the send nor <-pm.ctx.Done() can proceed.  A panic that no
\* deferred recover() stops ends the process.
forwardSend(f) ==
    /\ ~pmPanic
    /\ forwarder[f] = "forward"
    /\ ForwardOutcome = "none" => ~pmCancelled
    /\ pmPanic' = (ForwardOutcome = "panic" /\ ~Recovers("forwarder"))
    /\ wg' = IF ForwardOutcome = "panic" /\ Recovers("forwarder")
             THEN wg - 1 ELSE wg
    /\ subscriberLen' = IF ForwardOutcome = "sent" THEN subscriberLen + 1
                        ELSE subscriberLen
    /\ forwarder' = [forwarder EXCEPT ![f] =
                        IF ForwardOutcome = "panic" THEN "panic" ELSE "select"]
    /\ UNCHANGED <<pmStart, pmSpawned, pmCancelled, subscriber, consumer,
                   monitorLoop, pmStop, pmStopAt>>
    /\ UNCHANGED pmQueues
    /\ UNCHANGED <<busVars, adVars, supVars, smVars, mgVars, psVars>>

\* processMessages takes a message of pm.subscriber.
consumerTake ==
    /\ ~pmPanic
    /\ consumer = "select"
    /\ subscriberLen > 0
    /\ subscriberLen' = subscriberLen - 1
    /\ UNCHANGED <<pmStart, pmSpawned, pmCancelled, subscriber, wg, forwarder,
                   consumer, monitorLoop, pmStop, pmStopAt, pmPanic>>
    /\ UNCHANGED pmQueues
    /\ UNCHANGED <<busVars, adVars, supVars, smVars, mgVars, psVars>>

\* processMessages returns: the context is done, or the channel is closed and
\* drained.
consumerExit ==
    /\ ~pmPanic
    /\ consumer = "select"
    /\ pmCancelled \/ (subscriber = "closed" /\ subscriberLen = 0)
    /\ consumer' = "exited"
    /\ wg' = wg - 1
    /\ UNCHANGED <<pmStart, pmSpawned, pmCancelled, subscriber, subscriberLen,
                   forwarder, monitorLoop, pmStop, pmStopAt, pmPanic>>
    /\ UNCHANGED pmQueues
    /\ UNCHANGED <<busVars, adVars, supVars, smVars, mgVars, psVars>>

\* monitorLoop returns on <-pm.ctx.Done().
monitorLoopExit ==
    /\ ~pmPanic
    /\ monitorLoop = "select"
    /\ pmCancelled
    /\ monitorLoop' = "exited"
    /\ wg' = wg - 1
    /\ UNCHANGED <<pmStart, pmSpawned, pmCancelled, subscriber, subscriberLen,
                   forwarder, consumer, pmStop, pmStopAt, pmPanic>>
    /\ UNCHANGED pmQueues
    /\ UNCHANGED <<busVars, adVars, supVars, smVars, mgVars, psVars>>

\* PriceMonitor.Stop: pm.cancel().
PmStopCancel ==
    /\ ~pmPanic
    /\ pmStart # "none"
    /\ pmStop = "none"
    /\ pmStop' = "close"
    /\ pmStopAt' = pmStart
    /\ pmCancelled' = TRUE
    /\ UNCHANGED <<pmStart, pmSpawned, subscriber, subscriberLen, wg,
                   forwarder, consumer, monitorLoop, pmPanic>>
    /\ UNCHANGED pmQueues
    /\ UNCHANGED <<busVars, adVars, supVars, smVars, mgVars, psVars>>

\* PriceMonitor.Stop: close(pm.subscriber) unless it is nil.
PmStopClose ==
    /\ ~pmPanic
    /\ pmStop = "close"
    /\ pmStop' = "wait"
    /\ subscriber' = IF subscriber = "nil" THEN "nil" ELSE "closed"
    /\ UNCHANGED <<pmStart, pmSpawned, pmCancelled, subscriberLen, wg,
                   forwarder, consumer, monitorLoop, pmStopAt, pmPanic>>
    /\ UNCHANGED pmQueues
    /\ UNCHANGED <<busVars, adVars, supVars, smVars, mgVars, psVars>>

\* PriceMonitor.Stop: pm.wg.Wait() returns when the counter is zero.
PmStopWait ==
    /\ ~pmPanic
    /\ pmStop = "wait"
    /\ wg = 0
    /\ pmStop' = "returned"
    /\ UNCHANGED <<pmStart, pmSpawned, pmCancelled, subscriber, subscriberLen,
                   wg, forwarder, consumer, monitorLoop, pmStopAt, pmPanic>>
    /\ UNCHANGED pmQueues
    /\ UNCHANGED <<busVars, adVars, supVars, smVars, mgVars, psVars>>

PmNext ==
    \/ PmStartCalled
    \/ \E ok \in BOOLEAN : PmStartLoad(ok)
    \/ PmStartSpawn
    \/ \E f \in Forwarders : forwardReceive(f)
    \/ \E f \in Forwarders : forwardExit(f)
    \/ \E f \in Forwarders : forwardSend(f)
    \/ consumerTake
    \/ consumerExit
    \/ monitorLoopExit
    \/ PmStopCancel
    \/ PmStopClose
    \/ PmStopWait

(***************************************************************************)
(* app.Manager: start_work and stop_work.  The API server runs StartWork   *)
(* in the goroutine of the HTTP request and StopWork in a goroutine of its *)
(* own; no lock guards workStarted or the component fields.  Every         *)
(* StartWork that passes the guard builds one trade monitor, one           *)
(* supervisor and one sampler; a component is known by the number of the   *)
(* pipeline it belongs to.                                                 *)
(***************************************************************************)
\* start_work requests, stop_work requests.
MaxStartReqs == 2
MaxStopReqs == 2

StartReqs == 1..MaxStartReqs
StopReqs == 1..MaxStopReqs
Pipelines == 1..MaxStartReqs
NoComponent == 0

MgInit ==
    /\ workStarted = FALSE
    /\ stopChan = "open"
    /\ tradeMonitor = NoComponent
    /\ dataMonitor = NoComponent
    /\ priceMonitor = NoComponent
    /\ tradeMonitors = [n \in Pipelines |-> "none"]
    /\ dataMonitors = [n \in Pipelines |-> "none"]
    /\ priceMonitors = [n \in Pipelines |-> "none"]
    /\ nPipelines = 0
    /\ startReq = [s \in StartReqs |-> "idle"]
    /\ stopReq = [s \in StopReqs |-> "idle"]
    /\ shutdownReq = "idle"
    /\ mgPanic = FALSE
    /\ stopCalled = FALSE

\* Components of a kind that are running.
Running(components) == {n \in Pipelines : components[n] = "running"}

\* StartWork, the guard: if m.workStarted { return error }.
StartWorkCheck(s) ==
    /\ ~mgPanic
    /\ startReq[s] = "idle"
    /\ startReq' = [startReq EXCEPT ![s] =
                       IF workStarted THEN "rejected" ELSE "passed"]
    /\ UNCHANGED <<workStarted, stopChan, tradeMonitor, dataMonitor,
                   priceMonitor, tradeMonitors, dataMonitors, priceMonitors,
                   nPipelines, stopReq, shutdownReq, mgPanic, stopCalled>>
    /\ UNCHANGED <<busVars, adVars, supVars, smVars, pmVars, psVars>>

\* StartWork past the guard: m.workStarted = true, then the trade monitor,
\* the supervisor and the sampler are built, stored in the manager's fields
\* and started in goroutines.
StartWork(s) ==
    /\ ~mgPanic
    /\ startReq[s] = "passed"
    /\ workStarted' = TRUE
    /\ nPipelines' = nPipelines + 1
    /\ tradeMonitor' = nPipelines + 1
    /\ dataMonitor' = nPipelines + 1
    /\ priceMonitor' = nPipelines + 1
    /\ tradeMonitors' = [tradeMonitors EXCEPT ![nPipelines + 1] = "running"]
    /\ dataMonitors' = [dataMonitors EXCEPT ![nPipelines + 1] = "running"]
    /\ priceMonitors' = [priceMonitors EXCEPT ![nPipelines + 1] = "running"]
    /\ startReq' = [startReq EXCEPT ![s] = "started"]
    /\ UNCHANGED <<stopChan, stopReq, shutdownReq, mgPanic, stopCalled>>
    /\ UNCHANGED <<busVars, adVars, supVars, smVars, pmVars, psVars>>

\* StopWork, its head: return if !m.workStarted, else m.workStarted = false
\* and the context of the service daemon is cancelled.
StopWorkBegin(s) ==
    /\ ~mgPanic
    /\ stopReq[s] = "idle"
    /\ stopCalled' = TRUE
    /\ IF workStarted
       THEN workStarted' = FALSE /\ stopReq' = [stopReq EXCEPT ![s] = "trade"]
       ELSE UNCHANGED workStarted /\ stopReq' = [stopReq EXCEPT ![s] = "returned"]
    /\ UNCHANGED <<stopChan, tradeMonitor, dataMonitor, priceMonitor,
                   tradeMonitors, dataMonitors, priceMonitors, nPipelines,
                   startReq, shutdownReq, mgPanic>>
    /\ UNCHANGED <<busVars, adVars, supVars, smVars, pmVars, psVars>>

\* StopWork: if m.tradeMonitor != nil, go on to the send.
StopWorkTrade(s) ==
    /\ ~mgPanic
    /\ stopReq[s] = "trade"
    /\ stopReq' = [stopReq EXCEPT ![s] =
                      IF tradeMonitor # NoComponent THEN "send" ELSE "data"]
    /\ UNCHANGED <<workStarted, stopChan, tradeMonitor, dataMonitor,
                   priceMonitor, tradeMonitors, dataMonitors, priceMonitors,
                   nPipelines, startReq, shutdownReq, mgPanic, stopCalled>>
    /\ UNCHANGED <<busVars, adVars, supVars, smVars, pmVars, psVars>>

\* StopWork: m.stopChan <- struct{}{} is received by the select of a trade
\* monitor, which stops its workers and returns; then m.tradeMonitor = nil.
StopWorkSend(s, n) ==
    /\ ~mgPanic
    /\ stopReq[s] = "send"
    /\ stopChan = "open"
    /\ tradeMonitors[n] = "running"
    /\ tradeMonitors' = [tradeMonitors EXCEPT ![n] = "stopped"]
    /\ tradeMonitor' = NoComponent
    /\ stopReq' = [stopReq EXCEPT ![s] = "data"]
    /\ UNCHANGED <<workStarted, stopChan, dataMonitor, priceMonitor,
                   dataMonitors, priceMonitors, nPipelines, startReq,
                   shutdownReq, mgPanic, stopCalled>>
    /\ UNCHANGED <<busVars, adVars, supVars, smVars, pmVars, psVars>>

\* StopWork: m.dataMonitor.Stop() unless the field is nil, then nil.
StopWorkData(s) ==
    /\ ~mgPanic
    /\ stopReq[s] = "data"
    /\ dataMonitors' = IF dataMonitor # NoComponent
                       THEN [dataMonitors EXCEPT ![dataMonitor] = "stopped"]
                       ELSE dataMonitors
    /\ dataMonitor' = NoComponent
    /\ stopReq' = [stopReq EXCEPT ![s] = "price"]
    /\ UNCHANGED <<workStarted, stopChan, tradeMonitor, priceMonitor,
                   tradeMonitors, priceMonitors, nPipelines, startReq,
                   shutdownReq, mgPanic, stopCalled>>
    /\ UNCHANGED <<busVars, adVars, supVars, smVars, pmVars, psVars>>

\* StopWork: m.priceMonitor.Stop() unless the field is nil, then nil; the
\* trader workers are stopped and StopWork returns.
StopWorkPrice(s) ==
    /\ ~mgPanic
    /\ stopReq[s] = "price"
    /\ priceMonitors' = IF priceMonitor # NoComponent
                        THEN [priceMonitors EXCEPT ![priceMonitor] = "stopped"]
                        ELSE priceMonitors
    /\ priceMonitor' = NoComponent
    /\ stopReq' = [stopReq EXCEPT ![s] = "returned"]
    /\ UNCHANGED <<workStarted, stopChan, tradeMonitor, dataMonitor,
                   tradeMonitors, dataMonitors, nPipelines, startReq,
                   shutdownReq, mgPanic, stopCalled>>
    /\ UNCHANGED <<busVars, adVars, supVars, smVars, pmVars, psVars>>

\* handleDaemon, action=shutdown: go func() { s.stopChan <- struct{}{} }().
ApiShutdown ==
    /\ ~mgPanic
    /\ shutdownReq = "idle"
    /\ shutdownReq' = "send"
    /\ UNCHANGED <<workStarted, stopChan, tradeMonitor, dataMonitor,
                   priceMonitor, tradeMonitors, dataMonitors, priceMonitors,
                   nPipelines, startReq, stopReq, mgPanic, stopCalled>>
    /\ UNCHANGED <<busVars, adVars, supVars, smVars, pmVars, psVars>>

\* The send of the shutdown goroutine is received by a trade monitor, which
\* returns; the manager's fields stay as they are.
ShutdownSend(n) ==
    /\ ~mgPanic
    /\ shutdownReq = "send"
    /\ stopChan = "open"
    /\ tradeMonitors[n] = "running"
    /\ tradeMonitors' = [tradeMonitors EXCEPT ![n] = "stopped"]
    /\ shutdownReq' = "done"
    /\ UNCHANGED <<workStarted, stopChan, tradeMonitor, dataMonitor,
                   priceMonitor, dataMonitors, priceMonitors, nPipelines,
                   startReq, stopReq, mgPanic, stopCalled>>
    /\ UNCHANGED <<busVars, adVars, supVars, smVars, pmVars, psVars>>

\* Manager.Stop on SIGINT or SIGTERM: m.cancel() and close(m.stopChan).
ManagerStop ==
    /\ ~mgPanic
    /\ stopChan = "open"
    /\ stopChan' = "closed"
    /\ UNCHANGED <<workStarted, tradeMonitor, dataMonitor, priceMonitor,
                   tradeMonitors, dataMonitors, priceMonitors, nPipelines,
                   startReq, stopReq, shutdownReq, mgPanic, stopCalled>>
    /\ UNCHANGED <<busVars, adVars, supVars, smVars, pmVars, psVars>>

\* TradeMonitor.Start: <-tm.stopChan on the closed channel, return.
TradeMonitorClosed(n) ==
    /\ ~mgPanic
    /\ stopChan = "closed"
    /\ tradeMonitors[n] = "running"
    /\ tradeMonitors' = [tradeMonitors EXCEPT ![n] = "stopped"]
    /\ UNCHANGED <<workStarted, stopChan, tradeMonitor, dataMonitor,
                   priceMonitor, dataMonitors, priceMonitors, nPipelines,
                   startReq, stopReq, shutdownReq, mgPanic, stopCalled>>
    /\ UNCHANGED <<busVars, adVars, supVars, smVars, pmVars, psVars>>

\* StopWork: the send on the stop channel that Manager.Stop has closed
\* panics.
StopWorkSendClosed(s) ==
    /\ ~mgPanic
    /\ stopChan = "closed"
    /\ stopReq[s] = "send"
    /\ stopReq' = [stopReq EXCEPT ![s] = "panic"]
    /\ mgPanic' = TRUE
    /\ UNCHANGED <<workStarted, stopChan, tradeMonitor, dataMonitor,
                   priceMonitor, tradeMonitors, dataMonitors, priceMonitors,
                   nPipelines, startReq, shutdownReq, stopCalled>>
    /\ UNCHANGED <<busVars, adVars, supVars, smVars, pmVars, psVars>>

\* The send of the shutdown goroutine on the closed stop channel panics.
ShutdownSendClosed ==
    /\ ~mgPanic
    /\ stopChan = "closed"
    /\ shutdownReq = "send"
    /\ shutdownReq' = "panic"
    /\ mgPanic' = TRUE
    /\ UNCHANGED <<workStarted, stopChan, tradeMonitor, dataMonitor,
                   priceMonitor, tradeMonitors, dataMonitors, priceMonitors,
                   nPipelines, startReq, stopReq, stopCalled>>
    /\ UNCHANGED <<busVars, adVars, supVars, smVars, pmVars, psVars>>

MgNext ==
    \/ \E s \in StartReqs : StartWorkCheck(s)
    \/ \E s \in StartReqs : StartWork(s)
    \/ \E s \in StopReqs : StopWorkBegin(s)
    \/ \E s \in StopReqs : StopWorkTrade(s)
    \/ \E s \in StopReqs, n \in Pipelines : StopWorkSend(s, n)
    \/ \E s \in StopReqs : StopWorkData(s)
    \/ \E s \in StopReqs : StopWorkPrice(s)
    \/ ApiShutdown
    \/ \E n \in Pipelines : ShutdownSend(n)
    \/ ManagerStop
    \/ \E n \in Pipelines : TradeMonitorClosed(n)
    \/ \E s \in StopReqs : StopWorkSendClosed(s)
    \/ ShutdownSendClosed

(***************************************************************************)
(* The venue parsers, parseOrderBook: every wire level with at least two   *)
(* fields becomes a PriceLevel, in the order of the frame.                 *)
(***************************************************************************)
\* Levels of one side of a frame.
MaxRawLevels == 2

\* Price strings of the wire: two numbers and one that is not a number.
RawPrices == {"1", "2", ""}

\* A level of the wire: [price, volume], or a short array.
RawLevels == {<<"1">>} \cup {<<p, "1">> : p \in RawPrices}

RawSides == UNION {[1..n -> RawLevels] : n \in 0..MaxRawLevels}

\* parseFloat: strconv.ParseFloat with its error dropped, 0 for a string that
\* is not a number.
parseFloat(s) == CASE s = "1" -> 1 [] s = "2" -> 2 [] OTHER -> 0

\* The loop over one side: levels with fewer than two fields are skipped.
RECURSIVE parseLevels(_)
parseLevels(raw) ==
    IF raw = <<>> THEN <<>>
    ELSE LET level == Head(raw)
         IN (IF Len(level) >= 2
             THEN <<[price |-> parseFloat(level[1]),
                     volume |-> parseFloat(level[2])]>>
             ELSE <<>>) \o parseLevels(Tail(raw))

\* parseOrderBook: the UnifiedOrderBook of a depth frame.
parseOrderBook(rawBids, rawAsks) ==
    [bids |-> parseLevels(rawBids), asks |-> parseLevels(rawAsks)]

PsInit == parsed = [emitted |-> FALSE, book |-> parseOrderBook(<<>>, <<>>)]

\* ParseMessage on a depth frame read from the socket.
ParseMessage(rawBids, rawAsks) ==
    /\ ~parsed.emitted
    /\ parsed' = [emitted |-> TRUE, book |-> parseOrderBook(rawBids, rawAsks)]
    /\ UNCHANGED <<split, rd>>
    /\ UNCHANGED <<busVars, adVars, supVars, smVars, pmVars, mgVars>>

\* The reader has published the message and reads the next frame.
ParsedPublished ==
    /\ parsed.emitted
    /\ parsed' = [emitted |-> FALSE, book |-> parseOrderBook(<<>>, <<>>)]
    /\ UNCHANGED <<split, rd>>
    /\ UNCHANGED <<busVars, adVars, supVars, smVars, pmVars, mgVars>>

PsNext ==
    \/ \E rawBids \in RawSides, rawAsks \in RawSides :
           ParseMessage(rawBids, rawAsks)
    \/ ParsedPublished

(***************************************************************************)
(* Symbols: splitting a concatenated symbol such as BTCUSDT into base and  *)
(* quote.  A symbol is the sequence of its characters.                     *)
(***************************************************************************)
commonQuotes ==
    << <<"U","S","D","T">>, <<"U","S","D","C">>, <<"B","U","S","D">>,
       <<"T","U","S","D">>, <<"U","S","D","P">>, <<"B","T","C">>,
       <<"E","T","H">>, <<"B","N","B">>, <<"U","S","D">>, <<"E","U","R">>,
       <<"G","B","P">>, <<"D","A","I">>, <<"F","D","U","S","D">>,
       <<"B","T","T","C">>, <<"T","R","X">> >>

\* The symbols split here: a prefix followed by an entry of the list, by
\* three letters that are no entry, or by nothing.
SymbolPrefixes ==
    {<<>>, <<"X">>, <<"S","O","L">>, <<"D","O","G","E">>, <<"F","D">>,
     <<"B","T","C">>, <<"W","B","T","C">>}
SymbolEndings ==
    {commonQuotes[i] : i \in 1..Len(commonQuotes)} \cup {<<>>, <<"J","P","Y">>}
Symbols == {p \o e : p \in SymbolPrefixes, e \in SymbolEndings}

\* strings.HasSuffix
HasSuffix(s, suffix) ==
    /\ Len(suffix) <= Len(s)
    /\ SubSeq(s, Len(s) - Len(suffix) + 1, Len(s)) = suffix

\* The entries of the list that end the symbol and are shorter than it.
ProperSuffixQuotes(symbol) ==
    {i \in 1..Len(commonQuotes) :
        HasSuffix(symbol, commonQuotes[i]) /\ Len(symbol) > Len(commonQuotes[i])}

\* splitConcatenatedSymbol: the first entry of the list, in the order of the
\* list, that ends the symbol; without one, a symbol of six characters is
\* halved, a longer one gives its last three as the quote, a shorter one
\* the empty base and quote.
splitConcatenatedSymbol(symbol) ==
    LET found == ProperSuffixQuotes(symbol)
        n == Len(symbol)
    IN IF found # {}
       THEN LET q == commonQuotes[CHOOSE i \in found : \A j \in found : i <= j]
            IN [base |-> SubSeq(symbol, 1, n - Len(q)), quote |-> q]
       ELSE IF n = 6
       THEN [base |-> SubSeq(symbol, 1, 3), quote |-> SubSeq(symbol, 4, 6)]
       ELSE IF n >= 6 /\ HasSuffix(symbol, <<"U","S","D","T">>)
       THEN [base |-> SubSeq(symbol, 1, n - 4), quote |-> <<"U","S","D","T">>]
       ELSE IF n >= 6
       THEN [base |-> SubSeq(symbol, 1, n - 3), quote |-> SubSeq(symbol, n - 2, n)]
       ELSE [base |-> <<>>, quote |-> <<>>]

NoSplit == [done |-> FALSE, symbol |-> <<>>, base |-> <<>>, quote |-> <<>>]

\* ParseSymbol on a symbol without a separator: its default case.
SplitSymbol(symbol) ==
    /\ ~split.done
    /\ split' = [done |-> TRUE, symbol |-> symbol,
                 base |-> splitConcatenatedSymbol(symbol).base,
                 quote |-> splitConcatenatedSymbol(symbol).quote]
    /\ UNCHANGED <<parsed, rd>>
    /\ UNCHANGED <<busVars, adVars, supVars, smVars, pmVars, mgVars>>

\* ParseSymbol has returned.
SplitSymbolReturned ==
    /\ split.done
    /\ split' = NoSplit
    /\ UNCHANGED <<parsed, rd>>
    /\ UNCHANGED <<busVars, adVars, supVars, smVars, pmVars, mgVars>>

SyNext ==
    \/ \E symbol \in Symbols : SplitSymbol(symbol)
    \/ SplitSymbolReturned

(***************************************************************************)
(* Readers and frames: what the callers of a parser do with a frame.  A    *)
(* frame is its transport coding and its JSON body; the body is its kind   *)
(* and the number it carries (the ping value, or the timestamp).           *)
(***************************************************************************)
MaxFrames == 2
FrameNumbers == {1, 1700000000}
FrameKinds == {"ping", "pong", "ack", "depth", "nochannel", "unknown", "garbage"}
Codings == {"plain", "gzip", "corrupt"}
Frames ==
    [gz : Codings, body : [kind : FrameKinds, n : FrameNumbers]]

\* A text frame with the body {"pong": n}.
PongFrame(n) == [gz |-> "plain", body |-> [kind |-> "pong", n |-> n]]
PingFrame(n) == [gz |-> "plain", body |-> [kind |-> "ping", n |-> n]]

\* decompressGzip: data without the gzip header is returned as it is, a
\* gzip stream is unpacked, a corrupt one is an error.
decompressGzip(data) ==
    IF data.gz = "corrupt" THEN [err |-> TRUE, body |-> data.body]
    ELSE [err |-> FALSE, body |-> data.body]

\* json.Unmarshal into map[string]interface{} makes a float64 of a number,
\* json.Marshal writes an integral float64 below 1e21 without exponent; the
\* integers up to 2^53, all the numbers here, come back digit for digit.
unmarshalNumber(n) == [float64 |-> n]
marshalNumber(v) == v.float64

\* isPingPongMessage: the body is a JSON object with a ping or a pong key.
isPingPongMessage(body) == body.kind \in {"ping", "pong"}

\* HTXParser.ParseMessage: "none" is (nil, nil), "error" (nil, err), "msg" a
\* unified message.
HTXParseMessage(rawData) ==
    LET d == decompressGzip(rawData)
    IN IF d.err THEN "error"
       ELSE IF isPingPongMessage(d.body) THEN "none"
       ELSE IF d.body.kind = "garbage" THEN "error"
       ELSE IF d.body.kind = "ack" THEN "none"
       ELSE IF d.body.kind = "depth" THEN "msg"
       ELSE IF d.body.kind = "nochannel" THEN "none"
       ELSE "error"

\* KucoinParser.ParseMessage: welcome, ack and pong are (nil, nil); a frame
\* of no known topic is an error.
KucoinParseMessage(rawData) ==
    IF rawData.gz # "plain" \/ rawData.body.kind = "garbage" THEN "error"
    ELSE IF rawData.body.kind \in {"ack", "pong"} THEN "none"
    ELSE IF rawData.body.kind = "depth" THEN "msg"
    ELSE "error"

\* MessageParser.ParseMessage of the parser registered for the exchange.
ParseFrame(exchange, rawData) ==
    IF exchange = "htx" THEN HTXParseMessage(rawData)
    ELSE KucoinParseMessage(rawData)

\* A reader that answers a ping with the ping itself.
handlePingPongEcho(data) ==
    LET d == decompressGzip(data)
    IN IF d.err \/ d.body.kind = "garbage" THEN [handled |-> FALSE, sent |-> <<>>]
       ELSE IF d.body.kind = "ping"
       THEN [handled |-> TRUE,
             sent |-> <<PingFrame(marshalNumber(unmarshalNumber(d.body.n)))>>]
       ELSE IF d.body.kind = "pong" THEN [handled |-> TRUE, sent |-> <<>>]
       ELSE [handled |-> FALSE, sent |-> <<>>]

\* handlePingPong: whether the frame was a ping or a pong, and the frames
\* given to ws.WriteMessage.
handlePingPong(data) ==
    LET d == decompressGzip(data)
    IN IF d.err \/ d.body.kind = "garbage" THEN [handled |-> FALSE, sent |-> <<>>]
       ELSE IF d.body.kind = "ping"
       THEN [handled |-> TRUE,
             sent |-> <<PongFrame(marshalNumber(unmarshalNumber(d.body.n)))>>]
       ELSE IF d.body.kind = "pong" THEN [handled |-> TRUE, sent |-> <<>>]
       ELSE [handled |-> FALSE, sent |-> <<>>]

\* The outcome of one frame: the frames written to the socket, the messages
\* published to the bus and handed to handlers, and a panic.
Outcome(sent, published, handed, panic) ==
    [sent |-> sent, published |-> published, handed |-> handed, panic |-> panic]

\* HtxAdapter.processMessage
HtxProcessMessage(data) ==
    IF decompressGzip(data).err THEN Outcome(<<>>, 0, 0, FALSE)
    ELSE IF handlePingPong(data).handled
    THEN Outcome(handlePingPong(data).sent, 0, 0, FALSE)
    ELSE IF HTXParseMessage(data) = "msg" THEN Outcome(<<>>, 1, 0, FALSE)
    ELSE Outcome(<<>>, 0, 0, FALSE)

\* The body of KucoinAdapter.readLoopWithReconnect after a frame was read.
KucoinReadLoop(message) ==
    IF KucoinParseMessage(message) = "msg" THEN Outcome(<<>>, 1, 0, FALSE)
    ELSE Outcome(<<>>, 0, 0, FALSE)

\* MessageProcessor.ProcessRawMessage with the parser of the exchange and
\* nHandlers registered handlers: each handler is called with *unifiedMsg.
ProcessRawMessage(exchange, rawData, nHandlers) ==
    IF ParseFrame(exchange, rawData) = "error" THEN Outcome(<<>>, 0, 0, FALSE)
    ELSE IF nHandlers = 0 THEN Outcome(<<>>, 0, 0, FALSE)
    ELSE IF ParseFrame(exchange, rawData) = "none"
    THEN Outcome(<<>>, 0, 0, TRUE)
    ELSE Outcome(<<>>, 0, nHandlers, FALSE)

Callers == {"HtxAdapter", "KucoinAdapter", "MessageProcessor"}

NoReader ==
    [caller |-> "none", exchange |-> "none", handlers |-> 0, frames |-> 0,
     sent |-> <<>>, published |-> 0, handed |-> 0, panic |-> FALSE,
     frame |-> PongFrame(1), out |-> Outcome(<<>>, 0, 0, FALSE)]

\* A reader starts: an adapter with its parser, or an enhanced client with
\* the message processor, the parser of its exchange and its handlers.
ReaderStarts(caller, exchange, nHandlers) ==
    /\ rd.caller = "none"
    /\ caller = "HtxAdapter" => exchange = "htx" /\ nHandlers = 0
    /\ caller = "KucoinAdapter" => exchange = "kucoin" /\ nHandlers = 0
    /\ rd' = [rd EXCEPT !.caller = caller, !.exchange = exchange,
                        !.handlers = nHandlers]
    /\ UNCHANGED <<parsed, split>>
    /\ UNCHANGED <<busVars, adVars, supVars, smVars, pmVars, mgVars>>

\* The reader has read a frame from the socket and processes it.
ReaderFrame(data) ==
    /\ rd.caller # "none"
    /\ ~rd.panic
    /\ rd.frames < MaxFrames
    /\ LET out == IF rd.caller = "HtxAdapter" THEN HtxProcessMessage(data)
                  ELSE IF rd.caller = "KucoinAdapter" THEN KucoinReadLoop(data)
                  ELSE ProcessRawMessage(rd.exchange, data, rd.handlers)
       IN rd' = [rd EXCEPT !.frames = @ + 1,
                           !.sent = @ \o out.sent,
                           !.published = @ + out.published,
                           !.handed = @ + out.handed,
                           !.panic = out.panic,
                           !.frame = data,
                           !.out = out]
    /\ UNCHANGED <<parsed, split>>
    /\ UNCHANGED <<busVars, adVars, supVars, smVars, pmVars, mgVars>>

RdNext ==
    \/ \E caller \in Callers, exchange \in {"htx", "kucoin"}, nHandlers \in 0..1 :
           ReaderStarts(caller, exchange, nHandlers)
    \/ \E data \in Frames : ReaderFrame(data)

Init ==
    /\ BusInit /\ AdInit /\ SupInit /\ SmInit /\ PmInit /\ MgInit /\ PsInit
    /\ split = NoSplit
    /\ rd = NoReader

Next ==
    \/ BusNext \/ AdNext \/ SupStopNext \/ SmNext \/ PmNext \/ MgNext \/ PsNext
    \/ SyNext \/ RdNext

SpecBus == Init /\ [][BusNext]_vars

SpecAdapter == Init /\ [][AdNext]_vars

SpecSup == Init /\ [][SupNext]_vars

SpecSupStop == Init /\ [][SupStopNext]_vars

SpecSampler == Init /\ [][SmNext]_vars

SpecPm == Init /\ [][PmNext]_vars

SpecMgr == Init /\ [][MgNext]_vars

\* The manager with tasks that take a step they can take: a trade monitor
\* blocked on the stop channel returns when the channel is closed.  StopWork
\* and StartWork are requests of the API and need not come.
SpecMgrFair ==
    /\ Init
    /\ [][MgNext]_vars
    /\ WF_vars(\E n \in Pipelines : TradeMonitorClosed(n))

SpecParse == Init /\ [][PsNext]_vars

SpecSymbol == Init /\ [][SyNext]_vars

SpecReader == Init /\ [][RdNext]_vars

Spec == Init /\ [][Next]_vars

(***************************************************************************)
(* Claims about the bus.                                                   *)
(***************************************************************************)

\* C1 (as claimed): when Publish returns, every queue that was registered
\* under the topic for the whole call has either received the message or was
\* itself full at its send; no other subscriber makes it miss the message.
BusIsolation ==
    \A p \in Publishers :
        pub[p].pc = "ret" =>
            pub[p].covered \subseteq (pub[p].delivered \cup pub[p].dropped)

\* What each subscriber observes: what it dequeued, then what is queued.
Observed(ch) == received[ch] \o chBuf[ch]

\* C2: for every subscriber, if Publish(m1) returned before Publish(m2) began
\* and both were delivered to it, it observes m1 before m2.
BusFIFO ==
    \A ch \in Chans :
        \A i, j \in 1..Len(Observed(ch)) :
            i < j => Observed(ch)[j] \notin msgPreds[Observed(ch)[i]]

BusFIFOWitness ==
    \E ch \in Chans :
        /\ Len(received[ch]) >= 2
        /\ received[ch][1] \in msgPreds[received[ch][2]]

\* C3: a publisher inside Publish can always take its next step, whatever
\* the state of the subscribers' queues: Publish never waits.
PublishNeverBlocks ==
    \A p \in Publishers :
        (pub[p].pc = "send" /\ ~busPanic) => ENABLED PublishSend(p)

PublishNeverBlocksWitness ==
    \E p \in Publishers : pub[p].pc = "ret" /\ pub[p].dropped # {}

\* C14 (as claimed): no subscriber observes the same published message
\* twice.
DeliveredAtMostOnce ==
    \A ch \in Chans :
        \A i, j \in 1..Len(Observed(ch)) :
            i < j => Observed(ch)[i] # Observed(ch)[j]

\* C25 (as claimed): Publish never sends on a channel that Unsubscribe has
\* closed; no interleaving of a publish with an unsubscribe on its topic ends
\* in a send-on-closed-channel panic.
NoSendOnClosed == ~busPanic

\* C15: a step of Unsubscribe(t, ch) closes ch, takes exactly ch out of the
\* registrations of t (one subscriber less), leaves every other queue
\* registered where it was and open; and nothing is ever enqueued to a closed
\* queue, which stays closed.
UnsubscribeRemovesExactly ==
    /\ [][\A t \in Topics, ch \in Chans :
            Unsubscribe(t, ch) =>
                /\ chClosed'[ch]
                /\ subLen'[t] = subLen[t] - 1
                /\ Registered(t)' = Registered(t) \ {ch}
                /\ Cardinality(Registered(t)') = subLen'[t]
                /\ \A u \in Topics \ {t} :
                      Registered(u)' = Registered(u) /\ subLen'[u] = subLen[u]
                /\ \A c \in Chans \ {ch} : chClosed'[c] = chClosed[c]]_vars
    /\ [][\A ch \in Chans :
            chClosed[ch] =>
                /\ chClosed'[ch]
                /\ Len(chBuf'[ch]) <= Len(chBuf[ch])]_vars

UnsubscribeRemovesExactlyWitness ==
    /\ ~busPanic
    /\ \E ch \in Chans :
          /\ chClosed[ch]
          /\ \E t \in Topics : \E c \in Registered(t) :
                /\ ~chClosed[c]
                /\ \E i \in 1..Len(Observed(c)) :
                      /\ Observed(c)[i] = nMsgs
                      /\ \A j \in 1..Len(Observed(ch)) : Observed(ch)[j] # nMsgs

(***************************************************************************)
(* Claims about the supervisor.                                            *)
(***************************************************************************)

\* C4: after a reconciliation tick whose catalog read gave the desired key
\* set D, the keys that have an adapter are exactly D without the keys whose
\* creation failed in that tick (each such failure went through incErrors);
\* every adapter whose key is not desired has been stopped and forgotten.
ReconciledToDesired == RunningKeys = lastD \ lastF

ReconciledToDesiredWitness ==
    /\ nTicks >= 2
    /\ lastF # {}
    /\ RunningKeys # {}
    /\ totalStopped > 0

\* C6 (as claimed): every desired key whose creation failed in the previous
\* tick, or whose worker's Start has returned an error, gets a new creation
\* and start attempt in the tick.
FailedKeyRetried == retryDue \subseteq attempted

\* C16: a tick whose catalog read fails leaves the map of workers, their
\* Start goroutines and the three counters as they were, and while ticks go
\* on the next one reads the catalog again.
CatalogErrorChangesNothing ==
    /\ [][(nTicks' # nTicks /\ lastRead' = "error") =>
            UNCHANGED <<workers, startGo, totalStarted, totalStopped,
                        totalErrors>>]_vars
    /\ [](nTicks < MaxTicks =>
            ENABLED (\E D \in SUBSET Keys : UpdateWorkersFromPairs(D, {})))

CatalogErrorChangesNothingWitness ==
    /\ lastRead = "error"
    /\ RunningKeys # {}
    /\ totalStarted > 0
    /\ nTicks >= 2

\* C17 (as claimed): no worker is recorded for a key whose venue is unknown or
\* whose market type is unsupported.
UnsupportedKeyNotRecorded ==
    \A k \in Keys : ~SupportedKey(k) => workers[k] = NoWorker

\* C29 (as claimed): once Stop of the supervisor has returned, dm.workers
\* holds no worker, whatever tick ran alongside Stop.
NoWorkerAfterStop == dmStop = "returned" => RunningKeys = {}

(***************************************************************************)
(* Claims about the worker and its adapter.                                *)
(***************************************************************************)

\* The adapter is up and at rest: started, active, connected over a healthy
\* socket, its reader waiting for the next frame.
Settled ==
    /\ wk = "live"
    /\ starter = "done"
    /\ active
    /\ connected
    /\ conn = "open"
    /\ reader = "read"

\* C5 (as claimed): once a tick has updated the existing adapter with the
\* pair list L, the adapter is subscribed to exactly the pairs of L.
SubscribedExactlyDesired ==
    (ticked /\ Settled) => wire = Range(marketPairs)

\* C7 (as claimed): once Stop has been called on a started adapter, neither
\* its reader nor its writer begins another iteration: no reconnect attempt,
\* no published message, no keep-alive ping.
StopEndsTasks == (stopped /\ stopPhase = "done") => afterStop = {}

\* C8: every reconnect attempt comes after a pause of exactly ReconnectDelay
\* seconds, another attempt is always possible, and the reader leaves the
\* reconnect loop without a successful attempt only when the adapter is not
\* active.
ReconnectNeverGivesUp ==
    /\ [](reader = "dial" =>
            (slept = ReconnectDelay /\ ENABLED ReaderReconnect(FALSE)))
    /\ [][(reader \in {"backoff", "sleep", "dial"} /\ reader' = "exited")
             => ~active]_vars

ReconnectNeverGivesUpWitness ==
    /\ reader = "dial"
    /\ attempts = MaxAttempts
    /\ active

\* C9 (as claimed): what the reader sends after a successful reconnect is the
\* most recent subscribe request made to the adapter, symbols, market type
\* and depth.
ResendsLastRequest == resendOK

(***************************************************************************)
(* Claims about the sampler.                                               *)
(***************************************************************************)
RowsOf(pair, t) ==
    {i \in 1..Len(table) :
        table[i].pair_id = pair /\ table[i].price_timestamp = t}

\* The row shows the first five levels of each side of the book in the
\* book's order, zero where the side has no such level.
RowShows(row, book) ==
    \A i \in 1..RowLevels :
        /\ row.bids[i] = IF i <= Len(book.bids) THEN book.bids[i] ELSE ZeroLevel
        /\ row.asks[i] = IF i <= Len(book.asks) THEN book.asks[i] ELSE ZeroLevel

OneRowShowing(pair, t, book) ==
    /\ Cardinality(RowsOf(pair, t)) = 1
    /\ \A i \in RowsOf(pair, t) : RowShows(table[i], book)

TwoSided(book) == Len(book.bids) > 0 /\ Len(book.asks) > 0

CacheIsLatestBook ==
    /\ DOMAIN orderBooks \subseteq monitoringPairs
    /\ \A pair \in DOMAIN orderBooks :
          pair \in DOMAIN lastSeen /\ orderBooks[pair] = lastSeen[pair]
    /\ \A pair \in PairIds : \A i \in RowsOf(pair, lastTick.t) :
          pair \in DOMAIN lastTick.seen /\ RowShows(table[i], lastTick.seen[pair])

CacheIsLatestBookWitness ==
    /\ lastTick.ran
    /\ \E pair \in PairIds :
          /\ RowsOf(pair, lastTick.t) # {}
          /\ RowsOf(pair, 1) # {}
          /\ lastTick.t = 2
          /\ \E i \in RowsOf(pair, 1), j \in RowsOf(pair, 2) :
                table[i].bids # table[j].bids

\* C12: no row of a tick whose transaction failed at some step is in the
\* table, whatever rows had been inserted before the failure, and a later
\* tick writes the rows of its own batch.
FailedTickWritesNothing ==
    \A i \in 1..Len(table) : table[i].price_timestamp \notin lastTick.failed

FailedTickWritesNothingWitness ==
    /\ lastTick.ran
    /\ lastTick.failed # {}
    /\ lastTick.partial
    /\ lastTick.dbOk
    /\ \E pair \in PairIds : RowsOf(pair, lastTick.t) # {}

(***************************************************************************)
(* Claims about pair ids, Start and IsActive.                              *)
(***************************************************************************)

\* C13 (as claimed): every message an adapter has published for a symbol
\* subscribed with pair id p carried pair id p.
PublishedWithPairId == decorated

\* C18: when the REST probe, the token fetch or the dial of Start has failed,
\* the adapter is not active and has neither a reader nor a writer.
FailedStartSpawnsNothing ==
    starter = "failed" =>
        (~active /\ ~IsActive /\ reader = "none" /\ writer = "none")

FailedStartSpawnsNothingWitness ==
    /\ starter = "failed"
    /\ ws = "client"
    /\ wk = "live"

\* C19 (as claimed): once Start has dialled the socket, the adapter of every
\* venue but HTX has a keep-alive writer, and the adapter of HTX has none.
WriterForAllButHtx ==
    (ws = "client" /\ starter \in {"activate", "subscribe", "done"}) =>
        (writer # "none" <=> venue # "htx")

\* C20 (as claimed): IsActive returns true exactly when the active flag is
\* set and the adapter's socket is connected.
IsActiveIffConnected == IsActive <=> IsActiveConnected

(***************************************************************************)
(* Claims about Stop, Start and the reader.                                *)
(***************************************************************************)

\* C26 (as claimed): once Stop has returned, the adapter has no socket, is
\* not active and publishes nothing, wherever Start or the reader were when
\* Stop was called.
StopIsFinal ==
    stopped => (conn = "nil" /\ ~active /\ "publish" \notin afterStop)

\* C27 (as claimed): after Start has returned nil on an adapter with a
\* socket, and while nobody stops the adapter, its reader is running.
ReaderRunsAfterStart ==
    (wk = "live" /\ ws = "client" /\ starter \in {"subscribe", "done"}) =>
        reader \notin {"none", "exited"}

\* C28 (as claimed): from a read error until a reconnect attempt succeeds
\* the socket counts as not connected and IsActive is false.
DisconnectedWhileReconnecting ==
    reader \in {"backoff", "sleep", "dial"} => (~connected /\ ~IsActive)

(***************************************************************************)
(* Claims about the sampler's life cycle.                                  *)
(***************************************************************************)

\* C21 (as claimed): a Stop called on a started sampler always returns, no
\* goroutine of the sampler panics on the way, and when it has returned every
\* forwarder, the consumer and the ticker task have exited.
StopWaitsForTasks ==
    pmStopAt = "returned" =>
        /\ ~pmPanic
        /\ pmStop = "returned" => ~PmTasksRunning

(***************************************************************************)
(* Claims about start_work and stop_work.                                  *)
(***************************************************************************)

\* C22 (as claimed): at any time at most one supervisor and at most one
\* sampler are running, whatever the interleaving of the start_work and
\* stop_work requests.
OnePipelineAtATime ==
    /\ Cardinality(Running(dataMonitors)) <= 1
    /\ Cardinality(Running(priceMonitors)) <= 1

\* C23 (as claimed): whenever the active flag is false after a stop_work has
\* been called, no trade monitor, supervisor or sampler is running.
StoppedBeforeInactive ==
    (stopCalled /\ ~workStarted) =>
        /\ Running(tradeMonitors) = {}
        /\ Running(dataMonitors) = {}
        /\ Running(priceMonitors) = {}

\* C30 (as claimed): the send of StopWork on the stop channel never panics,
\* and whenever a StopWork is at the send there is a running trade monitor
\* to receive it.
StopWorkCompletes ==
    \A s \in StopReqs :
        /\ stopReq[s] # "panic"
        /\ stopReq[s] = "send" => Running(tradeMonitors) # {}

(***************************************************************************)
(* Claims about the parsers.                                               *)
(***************************************************************************)

\* C24 (as claimed): every order book a parser emits has its bids strictly
\* descending by price and its asks strictly ascending by price, and when
\* both sides are non-empty the first ask is above the first bid.
ParsedBookOrdered ==
    parsed.emitted =>
        LET bids == parsed.book.bids
            asks == parsed.book.asks
        IN /\ \A i \in 1..(Len(bids) - 1) : bids[i].price > bids[i + 1].price
           /\ \A i \in 1..(Len(asks) - 1) : asks[i].price < asks[i + 1].price
           /\ (Len(bids) > 0 /\ Len(asks) > 0) => asks[1].price > bids[1].price

\* C31 (as claimed): no forwarder ever sends on the internal channel after
\* Stop has closed it.
NoForwardOnClosed == \A f \in Forwarders : forwarder[f] # "panic"

\* C32 (as claimed): when the sampler has stopped, Stop returned and its
\* tasks gone, none of the queues it registered is left on the bus.
NoQueueAfterStop ==
    (pmStop = "returned" /\ ~PmTasksRunning) => pmQueues = 0

\* C38 (as claimed): a panic inside a spawned task of the sampler ends that
\* task only; the process keeps running.
PanicStaysInTask == ~pmPanic

\* C34 (as claimed): while a started adapter of a venue other than HTX is
\* active and connected, a keep-alive writer is running, after a reconnect
\* too.
WriterWhileConnected ==
    (wk = "live" /\ venue # "htx" /\ ws = "client" /\ starter = "done"
        /\ active /\ connected /\ conn = "open") => writer = "run"

\* C40 (as claimed): when a publish has returned, every queue that is still
\* subscribed to the topic, whatever was unsubscribed while the publish ran,
\* was offered the message, and holds it at most once.
PublishExactlyOnceToRemaining ==
    \A p \in Publishers :
        pub[p].pc = "ret" =>
            \A ch \in pub[p].covered :
                /\ ch \in pub[p].delivered \cup pub[p].dropped
                /\ \A i, j \in 1..Len(Observed(ch)) :
                      (i < j /\ Observed(ch)[i] = pub[p].msg)
                          => Observed(ch)[j] # pub[p].msg

\* C36 (as claimed): for every pair that the monitoring query returns,
\* whether it was monitored when the sampler started or joined later,
\* consuming an order book message of that pair puts its book in the cache,
\* from where the next tick writes its row.
CachedForPairJoinedLater ==
    \A pair \in dbPairs :
        now <= MaxTime =>
            ENABLED (/\ processMessages("orderbook", pair, MaxLevels, MaxLevels)
                     /\ pair \in DOMAIN orderBooks'
                     /\ orderBooks'[pair] = Book(MaxLevels, MaxLevels))

\* C33 (as claimed): once Manager.Stop has cancelled the root context and
\* closed the stop channel, every task of the pipeline terminates: no trade
\* monitor, supervisor or sampler stays running.
CancelEndsPipeline ==
    (stopChan = "closed") ~>
        (\/ mgPanic
         \/ /\ Running(tradeMonitors) = {}
            /\ Running(dataMonitors) = {}
            /\ Running(priceMonitors) = {})

\* C39 (as claimed): the quote of a concatenated symbol is the longest entry
\* of the quote list that is a proper suffix of the symbol, if there is one,
\* and the base is the prefix before it.
QuoteIsLongestSuffix ==
    split.done =>
        \A i \in ProperSuffixQuotes(split.symbol) :
            (\A j \in ProperSuffixQuotes(split.symbol) :
                Len(commonQuotes[j]) <= Len(commonQuotes[i]))
            => /\ split.quote = commonQuotes[i]
               /\ split.base \o split.quote = split.symbol

\* C35: the HTX reader answers a ping frame {"ping": N}, compressed or not,
\* with exactly one frame {"pong": N} on the socket and publishes nothing,
\* the parser gives (nil, nil) for that frame, and the reader writes nothing
\* to the socket for any other frame.
PingAnsweredInline ==
    (rd.caller = "HtxAdapter" /\ rd.frames > 0 /\ rd.frame.gz # "corrupt") =>
        IF rd.frame.body.kind = "ping"
        THEN /\ rd.out.sent = <<PongFrame(rd.frame.body.n)>>
             /\ rd.out.published = 0
             /\ HTXParseMessage(rd.frame) = "none"
        ELSE rd.out.sent = <<>>

PingAnsweredInlineWitness ==
    /\ rd.caller = "HtxAdapter"
    /\ rd.frames = MaxFrames
    /\ rd.frame.gz = "gzip"
    /\ rd.frame.body.kind = "ping"
    /\ rd.sent = <<PongFrame(1), PongFrame(1700000000)>>
    /\ rd.published = 0

\* C37 (as claimed): whichever caller read it, a frame for which the parser
\* returns (nil, nil) or an error is dropped: nothing is published or handed
\* to a handler for it, and the reader goes on to the next frame.
ControlFrameDropped ==
    (rd.frames > 0 /\ ParseFrame(rd.exchange, rd.frame) # "msg") =>
        /\ rd.out.published = 0
        /\ rd.out.handed = 0
        /\ ~rd.panic

====
